---- MODULE Spec2Model ----
(***************************************************************************)
(* Environment orchestrator of devflow (plant / stop / uproot / prune),    *)
(* the port registry and the file locks, as a set of concurrently running  *)
(* command invocations that share one state directory.                     *)
(***************************************************************************)
EXTENDS Integers, FiniteSets, Sequences, TLC

\* ------------------------------------------------------------------ bounds
Tasks == {"a", "b"}
Procs == {1, 2}
OneTask == {"a"}
OneProc == {1}
\* number of command invocations and external events (a Ctrl-C, a session
\* dying, a `task create`) in one behaviour of the orchestrator on one task
MaxOps == 3
\* the same, in the behaviours that race two plants of one task
MaxRaceOps == 4
\* number of grove plant / stop / uproot invocations on two tasks
MaxPairOps == 3
\* number of invocations and external events when one process runs the
\* commands one after the other on two tasks
MaxSeqOps == 3
\* number of grove plant / prune invocations and dying sessions on two tasks
MaxPruneOps == 3
\* number of ports::allocate / ports::release calls (and Ctrl-C) in one
\* behaviour of the port registry alone
MaxCalls == 5
\* number of plant / stop invocations when one process plants and stops one
\* task and nothing else happens
MaxReplantOps == 3
\* number of grove plant / stop invocations when one process plants and
\* stops one task whose worktree files the user edits
MaxAbortOps == 3
\* number of invocations and session deaths around a grove and the tree that
\* shares its stack
MaxShareOps == 4
\* number of invocations and session deaths when a grove and a tree are
\* planted, stopped, uprooted and pruned
MaxFrameOps == 3
\* highest index an entry of the registry holds at the start
MaxIndex == 1000
\* number of allocate / release calls and kills on such a registry
MaxWideCalls == 2

\* --------------------------------------------------------- program constants
APP_BASE == 3001
DB_BASE == 5433
REDIS_BASE == 6380
U16 == 65536

NoTask == "none"
NoProc == 0

\* AllocatedPorts, with the all-zero triple standing for Option::None
NoPorts == [app |-> 0, db |-> 0, redis |-> 0]

\* GroveState as stored in groves/<task>.json; kind tells whether the file is
\* missing, unparsable, or a complete record
NoRecord ==
  [kind |-> "absent", task_name |-> NoTask, compose_file |-> FALSE,
   compose_ports |-> NoPorts, tmux_session |-> FALSE,
   shared_grove |-> NoTask, shared_compose_ports |-> NoPorts]

CorruptRecord == [NoRecord EXCEPT !.kind = "corrupt"]

EmptyRegistry == [t \in Tasks |-> NoPorts]

\* ------------------------------------------------------------------- state
VARIABLES
  pc,          \* per process: position inside the running command
  l,           \* per process: arguments and local variables of the command
  ret,         \* the command that returned last, with its result
  groves,      \* groves/<task>.json
  branch,      \* the task's git branch exists
  worktree,    \* worktrees/<task>/ exists (with its .git)
  composeDir,  \* compose/<task>/ exists
  stack,       \* state of the compose project "groot-<task>"
  session,     \* the tmux session "<hub>-<task>" exists
  registry,    \* parsed content last written to ports.json
  regCorrupt,  \* ports.json is unparsable (truncated by an interrupted write)
  lockFile,    \* locks/<task>.lock exists
  lockHolder,  \* process holding the flock on the file now at that path
  portsLock,   \* process holding the flock on ports.json.lock
  left,        \* invocations and external events still to come
  branchOwner, \* process whose running command created the branch
  wtOwner,     \* process whose running command created the worktree
  branchPre,   \* running plants that were called when the branch was there
  wtPre,       \* running plants that were called when the worktree was there
  uncommitted, \* `git status --porcelain` in worktrees/<task>/ is not empty
  envEdited,   \* the user has changed .env, a Dockerfile or config/master.key
               \* in worktrees/<task>/ since the files were last written there
  wsArgs,      \* create_worker_session: the rendered template and compose_file
  wsPc,        \* create_worker_session: position in its loops
  keys,        \* per pane of the window, the send-keys texts it got, in order
  calls,       \* the tmux calls of the builder that succeeded, in order
  hw,          \* wait_healthy: polls made, the last `ps` listing, the result
  det,         \* detect_source_db: what it finds around the worktree, its result
  nz,          \* normalize_env_file: a .env, its normal form, and that of the latter
  ug           \* the dirty guard of uproot: the state of the repository, its verdict

gitVars == <<branch, worktree, branchOwner, wtOwner, branchPre, wtPre,
             uncommitted, envEdited>>
composeVars == <<composeDir, stack>>
regVars == <<registry, regCorrupt>>
lockVars == <<lockFile, lockHolder>>

wsVars == <<wsArgs, wsPc, keys, calls>>

\* the tmux workspace builder, the health wait, the source-database
\* detection and the .env normalizer, each taken alone
pureVars == <<wsVars, hw, det, nz, ug>>

\* the orchestrator and what it acts on
sysVars == <<pc, l, ret, groves, session, portsLock, gitVars, composeVars,
             regVars, lockVars, left>>

vars == <<sysVars, pureVars>>

\* ------------------------------------------------------ port registry (pure)
SkewedPorts(i) ==
  [app |-> (APP_BASE + i) % U16, db |-> (DB_BASE + i + i) % U16,
   redis |-> (REDIS_BASE + i) % U16]

\* the triple of index i (u16 arithmetic)
Ports(i) ==
  [app |-> (APP_BASE + i) % U16, db |-> (DB_BASE + i) % U16,
   redis |-> (REDIS_BASE + i) % U16]

Index(p) == (p.app - APP_BASE) % U16

UsedIndices(reg) == {Index(reg[t]) : t \in {u \in Tasks : reg[u] # NoPorts}}

ScanFromTop(used, i) ==
  IF used = {} THEN i
  ELSE 1 + CHOOSE k \in used : \A j \in used : j <= k

\* `while used_indices.contains(&index) { index += 1; }`
RECURSIVE ScanFrom(_, _)
ScanFrom(used, i) == IF i \in used THEN ScanFrom(used, i + 1) ELSE i

CountIndex(used) == Cardinality(used)

\* the gap-filling loop of allocate
FirstFreeIndex(used) == ScanFrom(used, 0)

\* what load_registry yields: the default (empty) registry when the file
\* does not parse
LoadRegistry == IF regCorrupt THEN EmptyRegistry ELSE registry

LockAlwaysFree(holder) == TRUE

\* try_lock_exclusive succeeds iff no other open file description holds it
LockFree(holder) == holder = NoProc

\* ------------------------------------------------------------ process locals
Fresh ==
  [op |-> "none", task |-> NoTask, compose |-> FALSE, share |-> NoTask,
   sports |-> NoPorts, force |-> FALSE,
   branch_created |-> FALSE, reusing |-> FALSE, allocated |-> NoPorts,
   reg |-> EmptyRegistry, cont |-> "none", rel |-> NoTask, perr |-> "none",
   rbDir |-> FALSE, err |-> "none", state |-> NoRecord, orphans |-> {},
   envPre |-> FALSE, dbFailed |-> FALSE]

NoReturn ==
  [proc |-> NoProc, op |-> "none", task |-> NoTask, res |-> "none",
   err |-> "none", names |-> {}]

SetF(f, t, v) == [f EXCEPT ![t] = v]

SetL(p, r) == l' = [l EXCEPT ![p] = r]

\* what the running command of p created is, once the command is over, just
\* there
Disown(p, f) == [t \in Tasks |-> IF f[t] = p THEN NoProc ELSE f[t]]

\* the command of p is over: it is no longer among the running plants
Forget(p, f) == [t \in Tasks |-> f[t] \ {p}]

\* the command returns (or dies: res = "Killed"); its locals are dropped
ReturnNaming(p, res, err, names) ==
  /\ pc' = [pc EXCEPT ![p] = "idle"]
  /\ l' = [l EXCEPT ![p] = Fresh]
  /\ ret' = [proc |-> p, op |-> l[p].op, task |-> l[p].task, res |-> res,
             err |-> err, names |-> names]

Return(p, res, err) == ReturnNaming(p, res, err, {})

Goto(p, label) == pc' = [pc EXCEPT ![p] = label] /\ ret' = ret

\* the FileLock of plant is dropped on every exit path
DropTaskLock(p, t) ==
  lockHolder' = IF lockHolder[t] = p THEN [lockHolder EXCEPT ![t] = NoProc]
                ELSE lockHolder

\* `docker compose -f <file> -p <project> down -v` needs the compose file
Down(t) == stack' = IF composeDir[t] THEN SetF(stack, t, "down") ELSE stack

\* find_sharing_trees
SharingTrees(g) ==
  {u \in Tasks : groves[u].kind = "record" /\ groves[u].shared_grove = g}

\* process p is inside the staged part of a plant of t (lock taken,
\* duplicate check passed)
InPlantStages(p, t) ==
  /\ l[p].op = "plant" /\ l[p].task = t
  /\ pc[p] \notin {"idle", "plant_lock", "plant_check"}

\* lifecycle state of a task (spec 4.1, state-machine summary)
Life(t) ==
  IF \E p \in Procs : InPlantStages(p, t) THEN "Planting"
  ELSE IF \E p \in Procs : /\ l[p].op = "uproot" /\ l[p].task = t
                           /\ pc[p] \notin {"idle", "uproot_load"}
       THEN "Uprooting"
  ELSE IF groves[t].kind # "absent" THEN "Running"
  ELSE IF worktree[t] /\ branch[t] THEN "Stopped"
  ELSE "Absent"

\* -------------------------------------------------------------------- init
InitIdle ==
  /\ pc = [p \in Procs |-> "idle"]
  /\ l = [p \in Procs |-> Fresh]
  /\ ret = NoReturn
  /\ groves = [t \in Tasks |-> NoRecord]
  /\ branch = [t \in Tasks |-> FALSE]
  /\ worktree = [t \in Tasks |-> FALSE]
  /\ composeDir = [t \in Tasks |-> FALSE]
  /\ stack = [t \in Tasks |-> "down"]
  /\ session = [t \in Tasks |-> FALSE]
  /\ regCorrupt = FALSE
  /\ lockFile = [t \in Tasks |-> FALSE]
  /\ lockHolder = [t \in Tasks |-> NoProc]
  /\ portsLock = NoProc
  /\ branchOwner = [t \in Tasks |-> NoProc]
  /\ wtOwner = [t \in Tasks |-> NoProc]
  /\ branchPre = [t \in Tasks |-> {}]
  /\ wtPre = [t \in Tasks |-> {}]
  /\ uncommitted = [t \in Tasks |-> FALSE]
  /\ envEdited = [t \in Tasks |-> FALSE]

\* a fresh state directory: no ports.json
InitSystem == InitIdle /\ registry = EmptyRegistry

\* no workspace is being built
NoWorkspace ==
  /\ wsArgs = [shared_grove |-> FALSE, compose_file |-> FALSE, panes |-> <<>>,
               base_index |-> 0]
  /\ wsPc = [at |-> "done", pane |-> 0, initial |-> "none"]
  /\ keys = <<>>
  /\ calls = <<>>

\* no health wait is running
NoWait ==
  hw = [at |-> "returned", n |-> 0, success |-> FALSE, ps |-> <<>>,
        res |-> "none", names |-> "none", clock |-> 0, timeout |-> 0]

\* a file that is not there, a database server that cannot be asked, a
\* project name that cannot be found, and Option::None
NoFile == "absent"
NoEnvFile == [exists |-> FALSE, lines |-> <<>>]
NoServer == [ok |-> FALSE, dbs |-> {}]
NoProject == ""
None == <<>>

\* no detection is running
NoDetect ==
  det = [at |-> "returned", env |-> NoEnvFile, yml |-> NoFile,
         psql |-> NoServer, project |-> NoProject, res |-> "none",
         url |-> None]

\* no .env is being normalized
NoNormalize == nz = [at |-> "twice", src |-> <<>>, once |-> <<>>, twice |-> <<>>]

\* no dirty guard is running
NoGuard ==
  ug = [at |-> "returned", exists |-> FALSE, dirty |-> FALSE, git_ok |-> FALSE,
        branch_only |-> 0, base_only |-> 0, refused |-> FALSE, reasons |-> {}]

\* nothing of what is modelled alone is running
NoPure == NoWorkspace /\ NoWait /\ NoDetect /\ NoNormalize /\ NoGuard

InitState == InitSystem /\ NoPure

Init == InitState /\ left = MaxOps

\* ---------------------------------------------------------------- commands
Start(p) ==
  /\ pc[p] = "idle"
  /\ left > 0
  /\ left' = left - 1
  /\ UNCHANGED pureVars

\* `task create`: creates the task's branch
TaskCreate(t) ==
  /\ left > 0
  /\ ~branch[t]
  /\ left' = left - 1
  /\ UNCHANGED pureVars
  /\ branch' = SetF(branch, t, TRUE)
  /\ UNCHANGED <<pc, l, ret, groves, session, portsLock, worktree,
                 branchOwner, wtOwner, branchPre, wtPre, uncommitted,
                 envEdited,
                 composeVars, regVars, lockVars>>

\* plant(t) is called: what exists of branch and worktree at this moment
\* existed before the call
CallPlant(p, t) ==
  /\ branchPre' = IF branch[t] THEN SetF(branchPre, t, branchPre[t] \cup {p})
                  ELSE branchPre
  /\ wtPre' = IF worktree[t] THEN SetF(wtPre, t, wtPre[t] \cup {p})
              ELSE wtPre
  /\ UNCHANGED <<branch, worktree, branchOwner, wtOwner, uncommitted,
                 envEdited>>

\* the user changes a file in the worktree of t and does not commit it
Edit(t) ==
  /\ worktree[t]
  /\ ~uncommitted[t]
  /\ uncommitted' = SetF(uncommitted, t, TRUE)
  /\ UNCHANGED <<pc, l, ret, groves, session, portsLock, branch, worktree,
                 branchOwner, wtOwner, branchPre, wtPre, envEdited,
                 composeVars, regVars, lockVars, left, pureVars>>

\* the user changes .env (a Dockerfile, config/master.key) in the worktree
EditEnv(t) ==
  /\ worktree[t]
  /\ ~envEdited[t]
  /\ envEdited' = SetF(envEdited, t, TRUE)
  /\ UNCHANGED <<pc, l, ret, groves, session, portsLock, branch, worktree,
                 branchOwner, wtOwner, branchPre, wtPre, uncommitted,
                 composeVars, regVars, lockVars, left, pureVars>>

\* `grove plant <t>`: plant with compose, nothing shared
BeginGrovePlant(p, t) ==
  /\ Start(p)
  /\ Goto(p, "plant_lock")
  /\ SetL(p, [Fresh EXCEPT !.op = "plant", !.task = t, !.compose = TRUE,
                           !.envPre = envEdited[t]])
  /\ CallPlant(p, t)
  /\ UNCHANGED <<groves, session, portsLock, composeVars, regVars, lockVars>>

\* `tree plant <t> [--grove g]`: plant without compose; a grove to share is
\* accepted only if it has a record with a compose file and a live session
BeginTreePlant(p, t, g) ==
  /\ Start(p)
  /\ g # NoTask =>
       /\ groves[g].kind = "record"
       /\ groves[g].compose_file
       /\ groves[g].tmux_session => session[g]
       /\ groves[g].compose_ports # NoPorts
  /\ Goto(p, "plant_lock")
  /\ SetL(p, [Fresh EXCEPT !.op = "plant", !.task = t, !.compose = FALSE,
                !.share = g,
                !.sports = IF g = NoTask THEN NoPorts
                           ELSE groves[g].compose_ports,
                !.envPre = envEdited[t]])
  /\ CallPlant(p, t)
  /\ UNCHANGED <<groves, session, portsLock, composeVars, regVars, lockVars>>

BeginStop(p, t, force) ==
  /\ Start(p)
  /\ Goto(p, "stop_load")
  /\ SetL(p, [Fresh EXCEPT !.op = "stop", !.task = t, !.force = force])
  /\ UNCHANGED <<groves, session, portsLock, gitVars, composeVars, regVars,
                 lockVars>>

BeginUproot(p, t, force) ==
  /\ Start(p)
  /\ Goto(p, "uproot_load")
  /\ SetL(p, [Fresh EXCEPT !.op = "uproot", !.task = t, !.force = force])
  /\ UNCHANGED <<groves, session, portsLock, gitVars, composeVars, regVars,
                 lockVars>>

BeginPrune(p) ==
  /\ Start(p)
  /\ Goto(p, "prune_find")
  /\ SetL(p, [Fresh EXCEPT !.op = "prune"])
  /\ UNCHANGED <<groves, session, portsLock, gitVars, composeVars, regVars,
                 lockVars>>

\* ------------------------------------------------------------------- plant
\* plant returns: the lock handle is dropped
PlantReturn(p, res, err) ==
  /\ Return(p, res, err)
  /\ DropTaskLock(p, l[p].task)

AlwaysRemovesWorktree(reusing) == TRUE

\* rollback removes the worktree only if this call created it
RemovesWorktree(reusing) == ~reusing

\* rollback deletes the branch only if this call created it
DeletesBranch(branch_created) == branch_created

\* the git part of every rollback of plant: remove_worktree, delete_branch,
\* after which plant returns
RollbackGit(p, withWorktree) ==
  LET t == l[p].task
      rmWt == withWorktree /\ RemovesWorktree(l[p].reusing)
      rmBr == DeletesBranch(l[p].branch_created) IN
  /\ worktree' = IF rmWt THEN SetF(worktree, t, FALSE) ELSE worktree
  /\ uncommitted' = IF rmWt THEN SetF(uncommitted, t, FALSE) ELSE uncommitted
  /\ envEdited' = IF rmWt THEN SetF(envEdited, t, FALSE) ELSE envEdited
  /\ wtOwner' = Disown(p, IF rmWt THEN SetF(wtOwner, t, NoProc) ELSE wtOwner)
  /\ branch' = IF rmBr THEN SetF(branch, t, FALSE) ELSE branch
  /\ branchOwner' =
       Disown(p, IF rmBr THEN SetF(branchOwner, t, NoProc) ELSE branchOwner)
  /\ wtPre' = Forget(p, IF rmWt THEN SetF(wtPre, t, {}) ELSE wtPre)
  /\ branchPre' = Forget(p, IF rmBr THEN SetF(branchPre, t, {}) ELSE branchPre)

\* plant returns without touching git
KeepGit(p) ==
  /\ UNCHANGED <<branch, worktree, uncommitted, envEdited>>
  /\ wtOwner' = Disown(p, wtOwner)
  /\ branchOwner' = Disown(p, branchOwner)
  /\ wtPre' = Forget(p, wtPre)
  /\ branchPre' = Forget(p, branchPre)

\* 1. FileLock::acquire on locks/<task>.lock
PlantLock(p) ==
  LET t == l[p].task IN
  /\ pc[p] = "plant_lock"
  /\ IF LockFree(lockHolder[t])
     THEN /\ lockFile' = SetF(lockFile, t, TRUE)
          /\ lockHolder' = SetF(lockHolder, t, p)
          /\ Goto(p, "plant_check")
          /\ UNCHANGED <<l, gitVars>>
     ELSE /\ Return(p, "Err", "LockFailed")
          /\ KeepGit(p)
          /\ UNCHANGED lockVars
  /\ UNCHANGED <<groves, session, portsLock, composeVars, regVars, left, pureVars>>

\* 2. duplicate check, 3. disk space
PlantCheck(p) ==
  LET t == l[p].task IN
  /\ pc[p] = "plant_check"
  /\ IF groves[t].kind # "absent"
     THEN PlantReturn(p, "Err", "GroveAlreadyExists") /\ KeepGit(p)
     ELSE \E diskOk \in BOOLEAN :
            IF diskOk
            THEN /\ Goto(p, "plant_branch")
                 /\ UNCHANGED <<l, lockHolder, gitVars>>
            ELSE PlantReturn(p, "Err", "InsufficientDiskSpace") /\ KeepGit(p)
  /\ UNCHANGED <<groves, session, portsLock, composeVars, regVars, lockFile,
                 left, pureVars>>

\* 4. create the branch unless it exists
PlantBranch(p) ==
  LET t == l[p].task IN
  /\ pc[p] = "plant_branch"
  /\ IF branch[t]
     THEN /\ SetL(p, [l[p] EXCEPT !.branch_created = FALSE])
          /\ Goto(p, "plant_worktree")
          /\ UNCHANGED <<gitVars, lockHolder>>
     ELSE \E ok \in BOOLEAN :
            IF ok
            THEN /\ branch' = SetF(branch, t, TRUE)
                 /\ branchOwner' = SetF(branchOwner, t, p)
                 /\ SetL(p, [l[p] EXCEPT !.branch_created = TRUE])
                 /\ Goto(p, "plant_worktree")
                 /\ UNCHANGED <<worktree, wtOwner, branchPre, wtPre,
                                uncommitted, envEdited, lockHolder>>
            ELSE PlantReturn(p, "Err", "Git") /\ KeepGit(p)
  /\ UNCHANGED <<groves, session, portsLock, composeVars, regVars, lockFile,
                 left, pureVars>>

\* 5½. copy Dockerfile.dev, Dockerfile.groot, .env and config/master.key from
\* the repository root over those of the worktree, each if the root has it
CopyEssentialFiles(t, inRoot) ==
  envEdited' = IF inRoot THEN SetF(envEdited, t, FALSE) ELSE envEdited

\* 5. create the worktree or reuse the one a stop left, 5½. copy the
\* essential files
PlantWorktree(p) ==
  LET t == l[p].task
      next == IF l[p].compose THEN "plant_avail" ELSE "plant_session" IN
  /\ pc[p] = "plant_worktree"
  /\ IF worktree[t]
     THEN /\ SetL(p, [l[p] EXCEPT !.reusing = TRUE])
          /\ Goto(p, next)
          /\ \E inRoot \in BOOLEAN : CopyEssentialFiles(t, inRoot)
          /\ UNCHANGED <<branch, worktree, branchOwner, wtOwner, branchPre,
                         wtPre, uncommitted, lockHolder>>
     ELSE \E ok \in BOOLEAN :
            IF ok
            THEN /\ worktree' = SetF(worktree, t, TRUE)
                 /\ wtOwner' = SetF(wtOwner, t, p)
                 /\ SetL(p, [l[p] EXCEPT !.reusing = FALSE])
                 /\ Goto(p, next)
                 /\ UNCHANGED <<branch, branchOwner, branchPre, wtPre,
                                uncommitted, envEdited, lockHolder>>
            ELSE /\ RollbackGit(p, FALSE)
                 /\ PlantReturn(p, "Err", "Git")
  /\ UNCHANGED <<groves, session, portsLock, composeVars, regVars, lockFile,
                 left, pureVars>>

\* 5a. compose_mgr::check_available, then 5b. call ports::allocate
PlantAvail(p) ==
  /\ pc[p] = "plant_avail"
  /\ \E avail \in BOOLEAN :
       IF avail
       THEN /\ SetL(p, [l[p] EXCEPT !.cont = "plant_ports"])
            /\ Goto(p, "alloc_lock")
            /\ UNCHANGED <<gitVars, lockHolder>>
       ELSE /\ RollbackGit(p, TRUE)
            /\ PlantReturn(p, "Err", "ComposeNotAvailable")
  /\ UNCHANGED <<groves, session, portsLock, composeVars, regVars, lockFile,
                 left, pureVars>>

\* enter the rollback of plant that starts with ports::release
FailWithRelease(p, err, rmdir) ==
  /\ SetL(p, [l[p] EXCEPT !.err = err, !.rbDir = rmdir, !.rel = l[p].task,
                          !.cont = "plant_rb"])
  /\ Goto(p, "rel_lock")

\* 5b. the result of ports::allocate, then 5b'. check_ports_available
PlantPorts(p) ==
  /\ pc[p] = "plant_ports"
  /\ IF l[p].perr # "none"
     THEN /\ RollbackGit(p, TRUE)
          /\ PlantReturn(p, "Err", l[p].perr)
     ELSE /\ \E bindable \in BOOLEAN :
               IF bindable THEN Goto(p, "plant_compose") /\ UNCHANGED l
               ELSE FailWithRelease(p, "PortInUse", FALSE)
          /\ UNCHANGED <<gitVars, lockHolder>>
  /\ UNCHANGED <<groves, session, portsLock, composeVars, regVars, lockFile,
                 left, pureVars>>

\* 5c. generate_compose_file (it can fail before the compose directory is
\* created, or after, when writing docker-compose.yml), 5d. compose up (a
\* failed up may have started some of the containers), 5e. wait_healthy;
\* database setup and hooks after it are non-fatal
PlantCompose(p) ==
  LET t == l[p].task IN
  /\ pc[p] = "plant_compose"
  /\ \E out \in {"ok", "generate_template", "generate_write", "up_none",
                 "up_partial", "health"} :
       /\ composeDir' = IF out = "generate_template" THEN composeDir
                        ELSE SetF(composeDir, t, TRUE)
       /\ stack' = CASE out = "ok" -> SetF(stack, t, "up")
                     [] out = "up_partial" -> SetF(stack, t, "partial")
                     [] out = "health" -> SetF(stack, t, "down")
                     [] OTHER -> stack
       /\ CASE out = "ok" -> Goto(p, "plant_db") /\ UNCHANGED l
            [] out \in {"generate_template", "generate_write"} ->
                 FailWithRelease(p, "Io", FALSE)
            [] OTHER ->
                 FailWithRelease(p, "ComposeOperationFailed", TRUE)
  /\ UNCHANGED <<groves, session, portsLock, gitVars, regVars, lockVars, left, pureVars>>

\* a failed database setup or hook aborts plant like a failed health wait
DbSetupFatal(p, failed) ==
  IF failed
  THEN FailWithRelease(p, "ComposeOperationFailed", TRUE)
  ELSE Goto(p, "plant_session") /\ UNCHANGED l

\* failures of the database setup and of the hooks are printed as warnings;
\* plant goes on to the session
DbSetup(p, failed) ==
  /\ SetL(p, [l[p] EXCEPT !.dbFailed = failed])
  /\ Goto(p, "plant_session")

\* the database setups of plant and what can come of them
DbOutcomes(db_clone) ==
  IF db_clone
  THEN {"cloned", "detect_failed", "clone_failed"}
  ELSE {"prepared_seeded", "prepare_failed", "seed_failed"}

\* 5e¾. database setup: clone the source database (given, or detected), or
\* db:prepare and db:seed; 5f. the post-start hooks
PlantDbSetup(p) ==
  /\ pc[p] = "plant_db"
  /\ \E db_clone \in BOOLEAN, hooks_ok \in BOOLEAN :
       \E out \in DbOutcomes(db_clone) :
         DbSetup(p, out \notin {"cloned", "prepared_seeded"} \/ ~hooks_ok)
  /\ UNCHANGED <<groves, session, portsLock, gitVars, composeVars, regVars,
                 lockVars, left, pureVars>>

\* the rollback of steps 6 and 8: kill the session, compose down, then
\* ports::release and the rest
UndoSessionAndStack(p, err) ==
  LET t == l[p].task IN
  /\ session' = SetF(session, t, FALSE)
  /\ IF l[p].compose
     THEN /\ Down(t)
          /\ FailWithRelease(p, err, TRUE)
          /\ UNCHANGED <<gitVars, lockHolder>>
     ELSE /\ RollbackGit(p, TRUE)
          /\ PlantReturn(p, "Err", err)
          /\ UNCHANGED stack

\* 6. load the workspace template and create the tmux session
PlantSession(p) ==
  LET t == l[p].task IN
  /\ pc[p] = "plant_session"
  /\ \E tmpl \in {"unparsable", "empty", "windows"}, tmuxOk \in BOOLEAN :
       CASE tmpl = "unparsable" ->
              /\ PlantReturn(p, "Err", "Json")
              /\ KeepGit(p)
              /\ UNCHANGED <<session, stack>>
         [] tmpl = "empty" ->
              /\ Goto(p, "plant_save")
              /\ UNCHANGED <<l, session, gitVars, stack, lockHolder>>
         [] tmpl = "windows" ->
              IF tmuxOk /\ ~session[t]
              THEN /\ session' = SetF(session, t, TRUE)
                   /\ Goto(p, "plant_save")
                   /\ UNCHANGED <<l, gitVars, stack, lockHolder>>
              ELSE UndoSessionAndStack(p, "TmuxCommand")
  /\ UNCHANGED <<groves, portsLock, composeDir, regVars, lockFile, left, pureVars>>

NoRecordPorts(enable_compose, allocated) == NoPorts

\* compose_ports of the record: None unless the compose stages ran
RecordPorts(enable_compose, allocated) ==
  IF enable_compose THEN allocated ELSE NoPorts

RecordWithoutSnapshot(p) ==
  [kind |-> "record", task_name |-> l[p].task,
   compose_file |-> l[p].compose,
   compose_ports |-> RecordPorts(l[p].compose, l[p].allocated),
   tmux_session |-> TRUE,
   shared_grove |-> l[p].share,
   shared_compose_ports |-> NoPorts]

\* the record plant writes
NewRecord(p) ==
  [kind |-> "record", task_name |-> l[p].task,
   compose_file |-> l[p].compose,
   compose_ports |-> RecordPorts(l[p].compose, l[p].allocated),
   tmux_session |-> TRUE,
   shared_grove |-> l[p].share,
   shared_compose_ports |-> l[p].sports]

\* 8. GroveState::save (fs::write: a failed write can leave a partial file)
PlantSave(p) ==
  LET t == l[p].task IN
  /\ pc[p] = "plant_save"
  /\ \E out \in {"ok", "fail", "fail_partial"} :
       IF out = "ok"
       THEN /\ groves' = SetF(groves, t, NewRecord(p))
            /\ PlantReturn(p, "Ok", "none")
            /\ KeepGit(p)
            /\ UNCHANGED <<session, stack>>
       ELSE /\ groves' = IF out = "fail_partial"
                         THEN SetF(groves, t, CorruptRecord) ELSE groves
            /\ UndoSessionAndStack(p, "Io")
  /\ UNCHANGED <<portsLock, composeDir, regVars, lockFile, left, pureVars>>

\* the rest of a rollback, after ports::release
PlantRollback(p) ==
  LET t == l[p].task IN
  /\ pc[p] = "plant_rb"
  /\ composeDir' = IF l[p].rbDir THEN SetF(composeDir, t, FALSE)
                   ELSE composeDir
  /\ RollbackGit(p, TRUE)
  /\ PlantReturn(p, "Err", l[p].err)
  /\ UNCHANGED <<groves, session, portsLock, stack, regVars, lockFile, left, pureVars>>

\* ------------------------------------------ ports::allocate, ports::release
\* allocate: take the registry lock (or fail with LockFailed) and
\* load_registry
AllocLock(p) ==
  /\ pc[p] = "alloc_lock"
  /\ IF LockFree(portsLock)
     THEN /\ portsLock' = p
          /\ SetL(p, [l[p] EXCEPT !.reg = LoadRegistry, !.perr = "none"])
          /\ Goto(p, "alloc_save")
     ELSE /\ portsLock' = portsLock
          /\ SetL(p, [l[p] EXCEPT !.perr = "LockFailed"])
          /\ Goto(p, l[p].cont)
  /\ UNCHANGED <<groves, session, gitVars, composeVars, regVars, lockVars,
                 left, pureVars>>

\* allocate: return the existing entry, or insert the lowest free index and
\* save_registry; the lock is dropped on return
AllocSave(p) ==
  LET t == l[p].task
      reg == l[p].reg
      ports == IF reg[t] # NoPorts THEN reg[t]
               ELSE Ports(FirstFreeIndex(UsedIndices(reg))) IN
  /\ pc[p] = "alloc_save"
  /\ IF reg[t] # NoPorts
     THEN UNCHANGED regVars
     ELSE registry' = SetF(reg, t, ports) /\ regCorrupt' = FALSE
  /\ portsLock' = IF portsLock = p THEN NoProc ELSE portsLock
  /\ SetL(p, [l[p] EXCEPT !.allocated = ports, !.reg = EmptyRegistry])
  /\ Goto(p, l[p].cont)
  /\ UNCHANGED <<groves, session, gitVars, composeVars, lockVars, left, pureVars>>

\* release: take the registry lock and load_registry; the orchestrator drops
\* a LockFailed (`let _ = ports::release(..)`)
RelLock(p) ==
  /\ pc[p] = "rel_lock"
  /\ IF LockFree(portsLock)
     THEN /\ portsLock' = p
          /\ SetL(p, [l[p] EXCEPT !.reg = LoadRegistry, !.perr = "none"])
          /\ Goto(p, "rel_save")
     ELSE /\ portsLock' = portsLock
          /\ SetL(p, [l[p] EXCEPT !.perr = "LockFailed"])
          /\ Goto(p, l[p].cont)
  /\ UNCHANGED <<groves, session, gitVars, composeVars, regVars, lockVars,
                 left, pureVars>>

\* release: remove the entry, save_registry, drop the lock
RelSave(p) ==
  /\ pc[p] = "rel_save"
  /\ registry' = SetF(l[p].reg, l[p].rel, NoPorts)
  /\ regCorrupt' = FALSE
  /\ portsLock' = IF portsLock = p THEN NoProc ELSE portsLock
  /\ SetL(p, [l[p] EXCEPT !.reg = EmptyRegistry])
  /\ Goto(p, l[p].cont)
  /\ UNCHANGED <<groves, session, gitVars, composeVars, lockVars, left, pureVars>>

\* a bare call of ports::allocate(t), as any caller may issue it
BeginAllocate(p, t) ==
  /\ Start(p)
  /\ Goto(p, "alloc_lock")
  /\ SetL(p, [Fresh EXCEPT !.op = "allocate", !.task = t,
                           !.cont = "ports_ret"])
  /\ UNCHANGED <<groves, session, portsLock, gitVars, composeVars, regVars,
                 lockVars>>

\* a bare call of ports::release(t)
BeginRelease(p, t) ==
  /\ Start(p)
  /\ Goto(p, "rel_lock")
  /\ SetL(p, [Fresh EXCEPT !.op = "release", !.task = t, !.rel = t,
                           !.cont = "ports_ret"])
  /\ UNCHANGED <<groves, session, portsLock, gitVars, composeVars, regVars,
                 lockVars>>

\* the bare call returns its Result
PortsReturn(p) ==
  /\ pc[p] = "ports_ret"
  /\ IF l[p].perr = "none" THEN Return(p, "Ok", "none")
     ELSE Return(p, "Err", l[p].perr)
  /\ UNCHANGED <<groves, session, portsLock, gitVars, composeVars, regVars,
                 lockVars, left, pureVars>>

\* --------------------------------------------------------- stop and uproot
LeaveTrees(trees) == UNCHANGED <<groves, session, lockVars>>

\* stop(tree, false) as called for every sharing tree by a forced stop or
\* uproot of their grove: a sharing tree has no compose file of its own, so
\* the call kills its session and removes its record and lock file
StopTrees(trees) ==
  /\ session' = [u \in Tasks |->
                   IF u \in trees /\ groves[u].tmux_session THEN FALSE
                   ELSE session[u]]
  /\ groves' = [u \in Tasks |-> IF u \in trees THEN NoRecord ELSE groves[u]]
  /\ lockFile' = [u \in Tasks |-> IF u \in trees THEN FALSE ELSE lockFile[u]]
  /\ lockHolder' = [u \in Tasks |->
                      IF u \in trees THEN NoProc ELSE lockHolder[u]]

NeverBlocks(force) == FALSE

\* a grove with sharing trees is stopped or uprooted only with --force
BlocksOnSharing(force) == ~force

\* the reasons uproot lists when it refuses a worktree with work in it
Reasons(has_changes, ahead) ==
  (IF has_changes THEN {"uncommitted changes"} ELSE {})
    \cup (IF ahead THEN {"unpushed commit(s)"} ELSE {})

RefusesAhead(force, has_changes, ahead) == ~force /\ ahead

\* uproot's guard on a worktree that exists: without force, refuse when it
\* has uncommitted changes or its branch has commits that main has not
RefusesDirty(force, has_changes, ahead) == ~force /\ (has_changes \/ ahead)

\* the body of stop and of uproot down to compose down: existence check,
\* load, sharing trees, (uproot: dirty-worktree guard,) compose down; the
\* call goes on with ports::release
LoadAndTearDown(p, guard, next) ==
  LET t == l[p].task
      sharing == SharingTrees(t)
      forced == groves[t].compose_file /\ sharing # {} /\ l[p].force IN
  CASE groves[t].kind = "absent" ->
         /\ Return(p, "Err", "GroveNotFound")
         /\ UNCHANGED <<groves, session, lockVars, stack>>
    [] groves[t].kind = "corrupt" ->
         /\ Return(p, "Err", "Json")
         /\ UNCHANGED <<groves, session, lockVars, stack>>
    [] groves[t].kind = "record" ->
         IF /\ groves[t].compose_file /\ sharing # {}
            /\ BlocksOnSharing(l[p].force)
         THEN /\ ReturnNaming(p, "Err", "SharingTrees", sharing)
              /\ UNCHANGED <<groves, session, lockVars, stack>>
         ELSE \E ahead \in BOOLEAN :
                IF /\ guard /\ worktree[t]
                   /\ RefusesDirty(l[p].force, uncommitted[t], ahead)
                THEN /\ ReturnNaming(p, "Err", "Dirty",
                                     Reasons(uncommitted[t], ahead))
                     /\ UNCHANGED <<groves, session, lockVars, stack>>
                ELSE /\ IF forced THEN StopTrees(sharing \ {t})
                        ELSE UNCHANGED <<groves, session, lockVars>>
                     /\ IF forced
                        THEN /\ SetL(p, [l[p] EXCEPT !.state = groves[t],
                                           !.cont = next])
                             /\ Goto(p, "tear_down")
                             /\ UNCHANGED stack
                        ELSE IF groves[t].compose_file
                        THEN /\ Down(t)
                             /\ SetL(p, [l[p] EXCEPT !.state = groves[t],
                                           !.rel = t, !.cont = next])
                             /\ Goto(p, "rel_lock")
                        ELSE /\ SetL(p, [l[p] EXCEPT !.state = groves[t]])
                             /\ Goto(p, next)
                             /\ UNCHANGED stack

\* compose down of a grove whose sharing trees have been stopped; the call
\* goes on with ports::release
TearDown(p) ==
  /\ pc[p] = "tear_down"
  /\ Down(l[p].task)
  /\ SetL(p, [l[p] EXCEPT !.rel = l[p].task])
  /\ Goto(p, "rel_lock")
  /\ UNCHANGED <<groves, session, portsLock, gitVars, composeDir, regVars,
                 lockVars, left, pureVars>>

StopLoad(p) ==
  /\ pc[p] = "stop_load"
  /\ LoadAndTearDown(p, FALSE, "stop_kill")
  /\ UNCHANGED <<portsLock, gitVars, composeDir, regVars, left, pureVars>>

\* tmux kill-server: every session is gone
KillServer(t) == [u \in Tasks |-> FALSE]

\* workspace::destroy_worker_session: kill-session -t <hub>-<task>
DestroyWorkerSession(t) == SetF(session, t, FALSE)

\* remove the compose directory, kill the tmux session
RemoveDirAndSession(p) ==
  LET t == l[p].state.task_name IN
  /\ composeDir' = IF l[p].state.compose_file
                   THEN SetF(composeDir, t, FALSE) ELSE composeDir
  /\ session' = IF l[p].state.tmux_session
                THEN DestroyWorkerSession(t) ELSE session

StopKill(p) ==
  /\ pc[p] = "stop_kill"
  /\ RemoveDirAndSession(p)
  /\ Goto(p, "stop_rmstate")
  /\ UNCHANGED <<l, groves, portsLock, gitVars, stack, regVars, lockVars, left, pureVars>>

KeepState(p, next) == Goto(p, next) /\ UNCHANGED <<groves, l>>

\* fs::remove_file(state_path)?
RemoveState(p, next) ==
  LET t == l[p].task IN
  IF groves[t].kind = "absent"
  THEN Return(p, "Err", "Io") /\ UNCHANGED groves
  ELSE /\ groves' = SetF(groves, t, NoRecord)
       /\ Goto(p, next)
       /\ UNCHANGED l

\* remove the lock file (whoever holds a lock on it keeps the unlinked file)
RemoveLockFile(p) ==
  LET t == l[p].task IN
  /\ lockFile' = SetF(lockFile, t, FALSE)
  /\ lockHolder' = SetF(lockHolder, t, NoProc)
  /\ Return(p, "Ok", "none")

StopRmState(p) ==
  /\ pc[p] = "stop_rmstate"
  /\ RemoveState(p, "stop_rmlock")
  /\ UNCHANGED <<session, portsLock, gitVars, composeVars, regVars, lockVars,
                 left, pureVars>>

StopRmLock(p) ==
  /\ pc[p] = "stop_rmlock"
  /\ RemoveLockFile(p)
  /\ UNCHANGED <<groves, session, portsLock, gitVars, composeVars, regVars,
                 left, pureVars>>

UprootLoad(p) ==
  /\ pc[p] = "uproot_load"
  /\ LoadAndTearDown(p, TRUE, "uproot_destroy")
  /\ UNCHANGED <<portsLock, gitVars, composeDir, regVars, left, pureVars>>

\* compose directory, session, then remove_worktree(..)? and delete_branch
UprootDestroy(p) ==
  LET t == l[p].task IN
  /\ pc[p] = "uproot_destroy"
  /\ RemoveDirAndSession(p)
  /\ \E ok \in BOOLEAN :
       IF worktree[t] /\ ~ok
       THEN Return(p, "Err", "Git") /\ UNCHANGED gitVars
       ELSE /\ worktree' = SetF(worktree, t, FALSE)
            /\ uncommitted' = SetF(uncommitted, t, FALSE)
            /\ envEdited' = SetF(envEdited, t, FALSE)
            /\ wtOwner' = SetF(wtOwner, t, NoProc)
            /\ branch' = SetF(branch, t, FALSE)
            /\ branchOwner' = SetF(branchOwner, t, NoProc)
            /\ wtPre' = SetF(wtPre, t, {})
            /\ branchPre' = SetF(branchPre, t, {})
            /\ Goto(p, "uproot_rmstate")
            /\ UNCHANGED l
  /\ UNCHANGED <<groves, portsLock, stack, regVars, lockVars, left, pureVars>>

UprootRmState(p) ==
  /\ pc[p] = "uproot_rmstate"
  /\ RemoveState(p, "uproot_rmlock")
  /\ UNCHANGED <<session, portsLock, gitVars, composeVars, regVars, lockVars,
                 left, pureVars>>

UprootRmLock(p) ==
  /\ pc[p] = "uproot_rmlock"
  /\ RemoveLockFile(p)
  /\ UNCHANGED <<groves, session, portsLock, gitVars, composeVars, regVars,
                 left, pureVars>>

\* ------------------------------------------------------------------- prune
\* find_orphans: the records whose tmux session does not exist
Orphans ==
  {groves[t] : t \in {u \in Tasks : /\ groves[u].kind = "record"
                                    /\ ~(groves[u].tmux_session /\ session[u])}}

PruneFind(p) ==
  /\ pc[p] = "prune_find"
  /\ IF Orphans = {}
     THEN Return(p, "Ok", "none")
     ELSE SetL(p, [l[p] EXCEPT !.orphans = Orphans]) /\ Goto(p, "clean_down")
  /\ UNCHANGED <<groves, session, portsLock, gitVars, composeVars, regVars,
                 lockVars, left, pureVars>>

\* cleanup_orphan of the next orphan: compose down and ports::release
CleanDown(p) ==
  /\ pc[p] = "clean_down"
  /\ \E o \in l[p].orphans :
       IF o.compose_file
       THEN /\ Down(o.task_name)
            /\ SetL(p, [l[p] EXCEPT !.state = o, !.orphans = @ \ {o},
                                    !.rel = o.task_name, !.cont = "clean_rest"])
            /\ Goto(p, "rel_lock")
       ELSE /\ SetL(p, [l[p] EXCEPT !.state = o, !.orphans = @ \ {o}])
            /\ Goto(p, "clean_rest")
            /\ UNCHANGED stack
  /\ UNCHANGED <<groves, session, portsLock, gitVars, composeDir, regVars,
                 lockVars, left, pureVars>>

\* cleanup_orphan: compose directory, session, worktree, record, lock file
CleanRest(p) ==
  LET t == l[p].state.task_name IN
  /\ pc[p] = "clean_rest"
  /\ RemoveDirAndSession(p)
  /\ worktree' = SetF(worktree, t, FALSE)
  /\ uncommitted' = SetF(uncommitted, t, FALSE)
  /\ envEdited' = SetF(envEdited, t, FALSE)
  /\ wtOwner' = SetF(wtOwner, t, NoProc)
  /\ wtPre' = SetF(wtPre, t, {})
  /\ groves' = SetF(groves, t, NoRecord)
  /\ lockFile' = SetF(lockFile, t, FALSE)
  /\ lockHolder' = SetF(lockHolder, t, NoProc)
  /\ IF l[p].orphans = {}
     THEN Return(p, "Ok", "none")
     ELSE /\ Goto(p, "clean_down")
          /\ SetL(p, [l[p] EXCEPT !.state = NoRecord, !.rel = NoTask])
  /\ UNCHANGED <<portsLock, branch, branchOwner, branchPre, stack, regVars,
                 left, pureVars>>

\* ------------------------------------------------------------- environment
\* Ctrl-C on a running plant: the process dies where it stands, the kernel
\* drops its file locks; dying inside save_registry can leave ports.json
\* truncated
Kill(p) ==
  /\ l[p].op \in {"plant", "allocate", "release"}
  /\ pc[p] # "idle"
  /\ left > 0
  /\ left' = left - 1
  /\ UNCHANGED pureVars
  /\ PlantReturn(p, "Killed", "none")
  /\ KeepGit(p)
  /\ portsLock' = IF portsLock = p THEN NoProc ELSE portsLock
  /\ regCorrupt' \in IF \/ pc[p] = "rel_save"
                        \/ pc[p] = "alloc_save" /\ l[p].reg[l[p].task] = NoPorts
                     THEN {regCorrupt, TRUE} ELSE {regCorrupt}
  /\ UNCHANGED <<groves, session, composeVars, registry, lockFile>>

\* the tmux session of a task dies (closed by the user, server restart)
SessionDies(t) ==
  /\ session[t]
  /\ left > 0
  /\ left' = left - 1
  /\ UNCHANGED pureVars
  /\ session' = SetF(session, t, FALSE)
  /\ UNCHANGED <<pc, l, ret, groves, portsLock, gitVars, composeVars, regVars,
                 lockVars>>

\* ----------------------------------------------------------- specification
PlantStep(p) ==
  \/ PlantLock(p)
  \/ PlantCheck(p)
  \/ PlantBranch(p)
  \/ PlantWorktree(p)
  \/ PlantAvail(p)
  \/ PlantPorts(p)
  \/ PlantCompose(p)
  \/ PlantDbSetup(p)
  \/ PlantSession(p)
  \/ PlantSave(p)
  \/ PlantRollback(p)

PortsStep(p) ==
  \/ AllocLock(p)
  \/ AllocSave(p)
  \/ RelLock(p)
  \/ RelSave(p)

StopStep(p) ==
  \/ StopLoad(p)
  \/ StopKill(p)
  \/ StopRmState(p)
  \/ StopRmLock(p)

UprootStep(p) ==
  \/ UprootLoad(p)
  \/ UprootDestroy(p)
  \/ UprootRmState(p)
  \/ UprootRmLock(p)

PruneStep(p) ==
  \/ PruneFind(p)
  \/ CleanDown(p)
  \/ CleanRest(p)

\* every command and event on the tasks of T, the commands run by the
\* processes of P
System(P, T) ==
  \/ \E t \in T : TaskCreate(t)
  \/ \E p \in P, t \in T : BeginGrovePlant(p, t)
  \/ \E p \in P, t \in T, g \in T \cup {NoTask} : BeginTreePlant(p, t, g)
  \/ \E p \in P, t \in T, force \in BOOLEAN : BeginStop(p, t, force)
  \/ \E p \in P, t \in T, force \in BOOLEAN : BeginUproot(p, t, force)
  \/ \E p \in P : BeginPrune(p)
  \/ \E p \in P : PlantStep(p)
  \/ \E p \in P : PortsStep(p)
  \/ \E p \in P : StopStep(p)
  \/ \E p \in P : UprootStep(p)
  \/ \E p \in P : PruneStep(p)
  \/ \E p \in P : Kill(p)
  \/ \E t \in T : SessionDies(t)

Orchestrator(T) == System(Procs, T)

\* the whole system
Next ==
  \/ Orchestrator(Tasks)
  \/ \E p \in Procs : TearDown(p)
  \/ \E t \in Tasks : Edit(t)
  \/ \E t \in Tasks : EditEnv(t)

Spec == Init /\ [][Next]_vars

\* all commands and events, on one task
NextTask == Orchestrator(OneTask)

SpecTask == Init /\ [][NextTask]_vars

\* the same, with one more invocation
InitRace == InitState /\ left = MaxRaceOps

SpecRace == InitRace /\ [][NextTask]_vars

\* all commands and events on two tasks, one command at a time
InitSeq == InitState /\ left = MaxSeqOps

NextSeq ==
  \/ System(OneProc, Tasks)
  \/ \E p \in OneProc : TearDown(p)
  \/ \E t \in Tasks : Edit(t)

SpecSeq == InitSeq /\ [][NextSeq]_vars

\* groves on two tasks: grove plant and stop
InitPair == InitState /\ left = MaxPairOps

NextStop ==
  \/ \E p \in Procs, t \in Tasks : BeginGrovePlant(p, t)
  \/ \E p \in Procs, t \in Tasks : BeginStop(p, t, FALSE)
  \/ \E p \in Procs : PlantStep(p)
  \/ \E p \in Procs : PortsStep(p)
  \/ \E p \in Procs : StopStep(p)

SpecStop == InitPair /\ [][NextStop]_vars

\* groves on two tasks: grove plant and uproot
NextUproot ==
  \/ \E p \in Procs, t \in Tasks : BeginGrovePlant(p, t)
  \/ \E p \in Procs, t \in Tasks, force \in BOOLEAN : BeginUproot(p, t, force)
  \/ \E p \in Procs : PlantStep(p)
  \/ \E p \in Procs : PortsStep(p)
  \/ \E p \in Procs : UprootStep(p)

SpecUproot == InitPair /\ [][NextUproot]_vars

\* groves on two tasks: grove plant and prune, sessions that die
InitPrune == InitState /\ left = MaxPruneOps

NextPrune ==
  \/ \E p \in Procs, t \in Tasks : BeginGrovePlant(p, t)
  \/ \E p \in Procs : BeginPrune(p)
  \/ \E p \in Procs : PlantStep(p)
  \/ \E p \in Procs : PortsStep(p)
  \/ \E p \in Procs : PruneStep(p)
  \/ \E t \in Tasks : SessionDies(t)

SpecPrune == InitPrune /\ [][NextPrune]_vars

\* one process plants and stops one task, no other activity
InitReplant == InitState /\ left = MaxReplantOps

NextReplant ==
  \/ \E p \in OneProc, t \in OneTask : BeginGrovePlant(p, t)
  \/ \E p \in OneProc, t \in OneTask : BeginTreePlant(p, t, NoTask)
  \/ \E p \in OneProc, t \in OneTask : BeginStop(p, t, FALSE)
  \/ \E p \in OneProc : PlantStep(p)
  \/ \E p \in OneProc : PortsStep(p)
  \/ \E p \in OneProc : StopStep(p)

SpecReplant == InitReplant /\ [][NextReplant]_vars

\* one process plants (with compose) and stops one task, and the user edits
\* the files of its worktree
InitAbort == InitState /\ left = MaxAbortOps

NextAbort ==
  \/ \E p \in OneProc, t \in OneTask : BeginGrovePlant(p, t)
  \/ \E p \in OneProc, t \in OneTask : BeginStop(p, t, FALSE)
  \/ \E t \in OneTask : EditEnv(t)
  \/ \E p \in OneProc : PlantStep(p)
  \/ \E p \in OneProc : PortsStep(p)
  \/ \E p \in OneProc : StopStep(p)

SpecAbort == InitAbort /\ [][NextAbort]_vars

\* a grove and a tree that shares its stack: plant, stop, prune, and the
\* grove's session dying
InitShare == InitState /\ left = MaxShareOps

NextShare ==
  \/ \E p \in Procs : BeginGrovePlant(p, "a")
  \/ \E p \in Procs : BeginTreePlant(p, "b", "a")
  \/ \E p \in Procs, force \in BOOLEAN : BeginStop(p, "a", force)
  \/ \E p \in Procs : BeginPrune(p)
  \/ \E p \in Procs : PlantStep(p)
  \/ \E p \in Procs : PortsStep(p)
  \/ \E p \in Procs : StopStep(p)
  \/ \E p \in Procs : TearDown(p)
  \/ \E p \in Procs : PruneStep(p)
  \/ SessionDies("a")

SpecShare == InitShare /\ [][NextShare]_vars

\* a grove and a tree that may share its stack: plant, stop, uproot and prune
\* of either, and the grove's session dying
InitFrame == InitState /\ left = MaxFrameOps

NextFrame ==
  \/ \E p \in Procs : BeginGrovePlant(p, "a")
  \/ \E p \in Procs, g \in {"a", NoTask} : BeginTreePlant(p, "b", g)
  \/ \E p \in Procs, t \in Tasks, force \in BOOLEAN : BeginStop(p, t, force)
  \/ \E p \in Procs, t \in Tasks, force \in BOOLEAN : BeginUproot(p, t, force)
  \/ \E p \in Procs : BeginPrune(p)
  \/ \E p \in Procs : PlantStep(p)
  \/ \E p \in Procs : PortsStep(p)
  \/ \E p \in Procs : StopStep(p)
  \/ \E p \in Procs : UprootStep(p)
  \/ \E p \in Procs : TearDown(p)
  \/ \E p \in Procs : PruneStep(p)
  \/ SessionDies("a")

SpecFrame == InitFrame /\ [][NextFrame]_vars

\* the port registry alone, under arbitrary callers
InitPorts == InitState /\ left = MaxCalls

NextPorts ==
  \/ \E p \in Procs, t \in Tasks : BeginAllocate(p, t)
  \/ \E p \in Procs, t \in Tasks : BeginRelease(p, t)
  \/ \E p \in Procs : PortsStep(p)
  \/ \E p \in Procs : PortsReturn(p)
  \/ \E p \in Procs : Kill(p)

SpecPorts == InitPorts /\ [][NextPorts]_vars

\* the port registry of a project that has seen many tasks: a holds the
\* index it was given when all lower ones were taken, and the tasks that
\* held those have been released since
InitWide ==
  /\ InitIdle
  /\ \E i \in 0..MaxIndex : registry = [EmptyRegistry EXCEPT !["a"] = Ports(i)]
  /\ NoPure
  /\ left = MaxWideCalls

SpecWide == InitWide /\ [][NextPorts]_vars

\* ------------------------------------------------- tmux workspace (pure)
\* panes of the one window of the template
MaxPanes == 2

NoCommand == "none"
Commands == {"bin/dev", "bash"}

\* a pane of the rendered template
PaneTemplates ==
  [command : Commands \cup {NoCommand}, directory : BOOLEAN, host : BOOLEAN,
   focus : BOOLEAN]

Templates == UNION {[1..n -> PaneTemplates] : n \in 1..MaxPanes}

\* `docker compose -f "<cf>" -p "<project>" exec app`
ExecApp == "docker compose -f cf -p project exec app"

\* plant: a tree sharing a grove's stack passes no compose file
EffectiveComposeFile(shared_grove, compose_file) ==
  IF shared_grove THEN FALSE ELSE compose_file

\* every pane is wrapped when compose is active, the host panes too
WrapEveryPane(exec_prefix, pane) ==
  IF exec_prefix
  THEN IF pane.command # NoCommand
       THEN << <<ExecApp, pane.command>> >>
       ELSE << <<ExecApp, "bash">> >>
  ELSE IF pane.command # NoCommand THEN << <<pane.command>> >> ELSE <<>>

\* the texts the command loop sends to a pane: format!("{prefix} {cmd}"),
\* format!("{prefix} bash"), cmd, or none
PaneText(exec_prefix, pane) ==
  IF exec_prefix /\ ~pane.host
  THEN IF pane.command # NoCommand
       THEN << <<ExecApp, pane.command>> >>
       ELSE << <<ExecApp, "bash">> >>
  ELSE IF pane.command # NoCommand THEN << <<pane.command>> >> ELSE <<>>

\* format!("{session_name}:{win_index}"), the first window
WinTarget == [by |-> "index", at |-> wsArgs.base_index]

\* format!("{ws_name}:{}.0", first_win.name)
NameTarget == [by |-> "name", at |-> 0]

\* the panes with the focus flag; the last one is selected
Focused == {j \in DOMAIN wsArgs.panes : wsArgs.panes[j].focus}

\* what the builder does for a window once a part is through: the panes, the
\* layout when there are several, the commands, the focused pane if any
PhaseAfter(at) ==
  CASE at = "create" -> IF Len(wsArgs.panes) > 1 THEN "layout" ELSE "send"
    [] at = "layout" -> "send"
    [] at = "send" -> IF Focused # {} THEN "select" ELSE "done"
    [] at = "select" -> "done"

\* a tmux call that succeeds
Call(op, pane, pass) ==
  calls' = Append(calls, [op |-> op, pane |-> pane, pass |-> pass])

\* session::send_keys_to_pane that succeeds, on pane j (tmux counts from 0),
\* after the calls in prior
SendKeys(prior, j, pass, text, window) ==
  /\ keys' = [keys EXCEPT ![j] = Append(@, [pass |-> pass, text |-> text,
                                            window |-> window,
                                            pane |-> j - 1])]
  /\ calls' = calls \o prior
                 \o <<[op |-> "send-keys", pane |-> j, pass |-> pass]>>

\* a tmux call fails: create_worker_session returns the error
WsFail ==
  /\ wsPc' = [wsPc EXCEPT !.at = CASE @ = "create" -> "create_failed"
                                   [] @ = "layout" -> "layout_failed"
                                   [] @ = "send" -> "send_failed"
                                   [] @ = "select" -> "select_failed"]
  /\ UNCHANGED <<keys, calls>>

\* the next pane of the loop, or the next part of the window
Step(j) ==
  IF j < Len(wsArgs.panes) THEN [wsPc EXCEPT !.pane = j + 1]
  ELSE [wsPc EXCEPT !.at = PhaseAfter(wsPc.at), !.pane = 1]

\* the pane loop: the first pane comes with the session (and gets a cd when
\* it has its own directory), the others are split off; any tmux call can
\* fail
CreatePane ==
  LET j == wsPc.pane
      pane == wsArgs.panes[j] IN
  /\ wsPc.at = "create"
  /\ \E ok \in BOOLEAN :
       IF ~ok
       THEN WsFail
       ELSE /\ wsPc' = Step(j)
            /\ IF j = 1 /\ pane.directory
               THEN SendKeys(<<[op |-> "new-session", pane |-> 1,
                                pass |-> "create"]>>,
                             j, "cd", <<"cd", "dir">>, WinTarget)
               ELSE /\ Call(IF j = 1 THEN "new-session" ELSE "split-window",
                            j, "create")
                    /\ UNCHANGED keys
  /\ UNCHANGED <<wsArgs, hw, det, nz, ug, sysVars>>

\* session::apply_window_layout
ApplyLayout ==
  /\ wsPc.at = "layout"
  /\ \E ok \in BOOLEAN :
       IF ok
       THEN /\ wsPc' = [wsPc EXCEPT !.at = PhaseAfter("layout"), !.pane = 1]
            /\ Call("select-layout", 0, "layout")
            /\ UNCHANGED keys
       ELSE WsFail
  /\ UNCHANGED <<wsArgs, hw, det, nz, ug, sysVars>>

\* the command loop, one pane
SendCommand ==
  LET j == wsPc.pane
      texts == PaneText(wsArgs.compose_file, wsArgs.panes[j]) IN
  /\ wsPc.at = "send"
  /\ \E ok \in BOOLEAN :
       IF texts = <<>>
       THEN ok /\ wsPc' = Step(j) /\ UNCHANGED <<keys, calls>>
       ELSE IF ok
            THEN wsPc' = Step(j) /\ SendKeys(<<>>, j, "command", texts[1], WinTarget)
            ELSE WsFail
  /\ UNCHANGED <<wsArgs, hw, det, nz, ug, sysVars>>

\* session::select_pane on the last pane that asks for the focus
SelectPane ==
  /\ wsPc.at = "select"
  /\ \E ok \in BOOLEAN :
       IF ok
       THEN /\ wsPc' = [wsPc EXCEPT !.at = PhaseAfter("select"), !.pane = 0]
            /\ Call("select-pane",
                    CHOOSE j \in Focused : \A k \in Focused : k <= j, "select")
            /\ UNCHANGED keys
       ELSE WsFail
  /\ UNCHANGED <<wsArgs, hw, det, nz, ug, sysVars>>

\* plant, 7.: the initial command goes to the first pane of the first
\* window; a failure is a warning
SendInitial ==
  /\ wsPc.at = "done"
  /\ wsPc.initial = "pending"
  /\ \E ok \in BOOLEAN :
       IF ok
       THEN /\ wsPc' = [wsPc EXCEPT !.initial = "sent"]
            /\ SendKeys(<<>>, 1, "initial", <<"claude">>, NameTarget)
       ELSE /\ wsPc' = [wsPc EXCEPT !.initial = "failed"]
            /\ UNCHANGED <<keys, calls>>
  /\ UNCHANGED <<wsArgs, hw, det, nz, ug, sysVars>>

\* create_worker_session called by plant on any rendered template
InitWorkspace ==
  /\ InitSystem
  /\ left = 0
  /\ \E shared \in BOOLEAN, cf \in BOOLEAN, panes \in Templates,
        base \in 0..1, initial \in {"none", "pending"} :
       /\ wsArgs = [shared_grove |-> shared,
                    compose_file |-> EffectiveComposeFile(shared, cf),
                    panes |-> panes, base_index |-> base]
       /\ keys = [j \in 1..Len(panes) |-> <<>>]
       /\ wsPc = [at |-> "create", pane |-> 1, initial |-> initial]
  /\ calls = <<>>
  /\ NoWait
  /\ NoDetect
  /\ NoNormalize
  /\ NoGuard

NextWorkspace ==
  CreatePane \/ ApplyLayout \/ SendCommand \/ SelectPane \/ SendInitial

SpecWorkspace == InitWorkspace /\ [][NextWorkspace]_vars

\* ----------------------------------------------------- health wait (pure)
\* services of the stack, polls of one wait
MaxServices == 2
MaxPolls == 3

ServiceNames == <<"app", "db", "redis">>
States == {"running", "exited", "dead", "created"}
Healths == {"", "healthy", "starting"}

\* what `docker compose ps --format json` can print: one line per service
Listings ==
  UNION {{[i \in 1..n |-> [Name |-> ServiceNames[i], State |-> st[i],
                           Health |-> h[i]]] :
            st \in [1..n -> States], h \in [1..n -> Healths]} :
          n \in 0..MaxServices}

\* a running service counts whatever its healthcheck says
ReadyWhenRunning(svc) ==
  svc.State = "running"

\* running with no healthcheck, or running and healthy
Ready(svc) ==
  svc.State = "running" /\ svc.Health \in {"", "healthy"}

\* the loop over the lines of one listing, from line i on
RECURSIVE ScanLines(_, _, _, _)
ScanLines(ps, i, total, ready) ==
  IF i > Len(ps)
  THEN IF total > 0 /\ ready = total
       THEN [res |-> "Ok", names |-> "none"]
       ELSE [res |-> "none", names |-> "none"]
  ELSE IF ps[i].State \in {"exited", "dead"}
       THEN [res |-> "Err", names |-> ps[i].Name]
       ELSE ScanLines(ps, i + 1, total + 1,
                      IF Ready(ps[i]) THEN ready + 1 ELSE ready)

\* one poll: run `ps` (it takes some time: none, or one sleep's worth), read
\* its lines when it exited with success; `ps` that cannot be run at all is
\* an Io error of wait_healthy
PollOver(listings) ==
  /\ hw.at = "poll"
  /\ \E run \in {"success", "status", "spawn"}, ps \in listings, d \in 0..1 :
       LET r == CASE run = "success" -> ScanLines(ps, 1, 0, 0)
                  [] run = "status" -> [res |-> "none", names |-> "none"]
                  [] run = "spawn" -> [res |-> "Err", names |-> "io"] IN
       hw' = [hw EXCEPT !.at = IF r.res = "none" THEN "elapsed"
                               ELSE "returned",
                        !.n = @ + 1, !.success = (run = "success"),
                        !.ps = IF run = "success" THEN ps ELSE <<>>,
                        !.res = r.res, !.names = r.names,
                        !.clock = @ + d]
  /\ UNCHANGED <<wsVars, det, nz, ug, sysVars>>

Poll == PollOver(Listings)

\* the same on a stack of at most one service
OneService == {ps \in Listings : Len(ps) <= 1}

PollOne == PollOver(OneService)

\* the deadline is looked at only after a poll whose `ps` succeeded
TimedOutAfterListing(success, clock, timeout) ==
  success /\ clock >= timeout

\* start.elapsed() >= timeout
TimedOut(success, clock, timeout) ==
  clock >= timeout

\* after a poll that decided nothing: time out, or sleep 2 s and poll again
\* (the listing belongs to the iteration that read it)
Elapsed ==
  /\ hw.at = "elapsed"
  /\ IF TimedOut(hw.success, hw.clock, hw.timeout)
     THEN hw' = [hw EXCEPT !.at = "returned", !.res = "Err",
                           !.names = "not ready"]
     ELSE /\ hw.n < MaxPolls
          /\ hw' = [hw EXCEPT !.at = "poll", !.clock = @ + 1,
                                !.success = FALSE, !.ps = <<>>]
  /\ UNCHANGED <<wsVars, det, nz, ug, sysVars>>

InitWait ==
  /\ InitSystem
  /\ left = 0
  /\ NoWorkspace
  /\ \E timeout \in 0..(MaxPolls - 1) :
       hw = [at |-> "poll", n |-> 0, success |-> FALSE, ps |-> <<>>,
             res |-> "none", names |-> "none", clock |-> 0,
             timeout |-> timeout]
  /\ NoDetect
  /\ NoNormalize
  /\ NoGuard

NextWait == Poll \/ Elapsed

SpecWait == InitWait /\ [][NextWait]_vars

\* the loop is sequential and blocking: `ps` that was started returns, a
\* sleep ends
NextWaitOne == PollOne \/ Elapsed

SpecWaitLive ==
  InitWait /\ [][NextWaitOne]_vars /\ WF_vars(PollOne) /\ WF_vars(Elapsed)

\* ------------------------------------------- source database detection (pure)
\* lines of the worktree's .env
MaxEnvLines == 2

\* a line of .env: a comment, another assignment, or [export ]DATABASE_URL=
\* followed by a value, bare or in quotes
EnvLines ==
  {[key |-> "#", export |-> FALSE, quote |-> "", value |-> ""],
   [key |-> "RAILS_ENV", export |-> FALSE, quote |-> "",
    value |-> "development"]}
  \cup [key : {"DATABASE_URL"}, export : BOOLEAN, quote : {"", "\"", "'"},
        value : {"", "postgres://env-1", "postgres://env-2"}]

EnvFiles ==
  {NoEnvFile} \cup
  {[exists |-> TRUE, lines |-> ls] :
     ls \in UNION {[1..n -> EnvLines] : n \in 0..MaxEnvLines}}

\* config/database.yml: no file, no development.database, an empty name, or
\* a name
YmlFiles == {NoFile, "no_development", "", "app_dev"}

\* `psql -l`: not callable, or the names of the databases of the server
Servers ==
  {NoServer} \cup
  {[ok |-> TRUE, dbs |-> d] : d \in SUBSET {"postgres", "My_App_development"}}

\* project_name_from_path
Projects == {NoProject, "my-app"}

\* format!("postgres://localhost:5432/{db_name}")
LocalUrl(db_name) == <<"postgres://localhost:5432/", db_name>>

\* project_name.replace('-', "_") followed by _development
Expected(project) ==
  IF project = "my-app" THEN "my_app_development" ELSE "_development"

\* eq_ignore_ascii_case
Lower(db_name) ==
  IF db_name = "My_App_development" THEN "my_app_development" ELSE db_name

\* the raw text after DATABASE_URL= and what stripping the quotes gives
Unquoted(raw) ==
  IF Len(raw) = 3 /\ raw[1] = raw[3] /\ raw[1] \in {"\"", "'"}
  THEN raw[2] ELSE raw[1]

RawValue(line) ==
  IF line.quote = "" THEN <<line.value>>
  ELSE <<line.quote, line.value, line.quote>>

\* priority 1: the first DATABASE_URL line of .env with a value
RECURSIVE FromLines(_, _)
FromLines(lines, i) ==
  IF i > Len(lines) THEN None
  ELSE IF lines[i].key = "DATABASE_URL"
          /\ Unquoted(RawValue(lines[i])) # ""
       THEN <<Unquoted(RawValue(lines[i]))>>
       ELSE FromLines(lines, i + 1)

DetectFromEnvFile(env) ==
  IF ~env.exists THEN None ELSE FromLines(env.lines, 1)

\* priority 2: development.database of config/database.yml
DetectFromDatabaseYml(yml) ==
  IF yml \in {NoFile, "no_development", ""} THEN None ELSE LocalUrl(yml)

\* priority 3: a database of the running server named like the project
DetectFromRunningPostgres(psql, project) ==
  IF ~psql.ok \/ project = NoProject THEN None
  ELSE IF \E n \in psql.dbs : Lower(n) = Expected(project)
       THEN LocalUrl(CHOOSE n \in psql.dbs : Lower(n) = Expected(project))
       ELSE None

\* priority 4: the naming convention
DetectFromConvention(project) ==
  IF project = NoProject THEN None ELSE LocalUrl(Expected(project))

\* the chain with its first two sources swapped
DetectYmlFirst(env, yml, psql, project) ==
  IF DetectFromDatabaseYml(yml) # None THEN DetectFromDatabaseYml(yml)
  ELSE IF DetectFromEnvFile(env) # None THEN DetectFromEnvFile(env)
  ELSE IF DetectFromRunningPostgres(psql, project) # None
       THEN DetectFromRunningPostgres(psql, project)
  ELSE DetectFromConvention(project)

DetectSourceDb(env, yml, psql, project) ==
  IF DetectFromEnvFile(env) # None THEN DetectFromEnvFile(env)
  ELSE IF DetectFromDatabaseYml(yml) # None THEN DetectFromDatabaseYml(yml)
  ELSE IF DetectFromRunningPostgres(psql, project) # None
       THEN DetectFromRunningPostgres(psql, project)
  ELSE DetectFromConvention(project)

\* detect_source_db, called and returning
Detect ==
  /\ det.at = "call"
  /\ LET url == DetectSourceDb(det.env, det.yml, det.psql, det.project) IN
     det' = [det EXCEPT !.at = "returned",
                        !.res = IF url = None THEN "Err" ELSE "Ok",
                        !.url = url]
  /\ UNCHANGED <<wsVars, hw, nz, ug, sysVars>>

\* any worktree, any server
InitDetect ==
  /\ InitSystem
  /\ left = 0
  /\ NoWorkspace
  /\ NoWait
  /\ NoNormalize
  /\ NoGuard
  /\ \E env \in EnvFiles, yml \in YmlFiles, psql \in Servers,
        project \in Projects :
       det = [at |-> "call", env |-> env, yml |-> yml, psql |-> psql,
              project |-> project, res |-> "none", url |-> None]

NextDetect == Detect

SpecDetect == InitDetect /\ [][NextDetect]_vars

\* ------------------------------------------------- .env normalizer (pure)
\* characters of a line of .env
MaxLineLen == 5

\* the characters the normalizer tells apart; the word export is one of them
Chars == {"export", "a", "=", " ", "\"", "'", "#"}

Lines == UNION {[1..n -> Chars] : n \in 0..MaxLineLen}

\* a .env of at most one line
EnvTexts == {<<>>} \cup {<<line>> : line \in Lines}

RECURSIVE TrimStart(_)
TrimStart(str) ==
  IF str # <<>> /\ str[1] = " " THEN TrimStart(Tail(str)) ELSE str

RECURSIVE TrimEnd(_)
TrimEnd(str) ==
  IF str # <<>> /\ str[Len(str)] = " "
  THEN TrimEnd(SubSeq(str, 1, Len(str) - 1)) ELSE str

\* str::trim
Trim(str) == TrimEnd(TrimStart(str))

\* strip_prefix("export ").unwrap_or(trimmed)
StripExport(str) ==
  IF Len(str) >= 2 /\ str[1] = "export" /\ str[2] = " "
  THEN SubSeq(str, 3, Len(str)) ELSE str

\* strip_prefix(q).and_then(|v| v.strip_suffix(q))
Within(str, q) ==
  IF Len(str) >= 2 /\ str[1] = q /\ str[Len(str)] = q
  THEN <<SubSeq(str, 2, Len(str) - 1)>> ELSE <<>>

\* the value without its surrounding double or single quotes
StripQuotes(value) ==
  IF Within(value, "\"") # <<>> THEN Within(value, "\"")[1]
  ELSE IF Within(value, "'") # <<>> THEN Within(value, "'")[1]
  ELSE value

\* split_once('='): the position of the first =, 0 when there is none
FirstEq(str) ==
  IF \E i \in DOMAIN str : str[i] = "="
  THEN CHOOSE i \in DOMAIN str :
         str[i] = "=" /\ \A j \in 1..(i - 1) : str[j] # "="
  ELSE 0

\* the body of the loop over contents.lines(), without the final \n
NormalizeLine(line) ==
  LET trimmed == Trim(line)
      bare == StripExport(trimmed)
      eq == FirstEq(bare) IN
  IF trimmed = <<>> \/ trimmed[1] = "#" THEN line
  ELSE IF eq # 0
       THEN Trim(SubSeq(bare, 1, eq - 1)) \o <<"=">>
              \o StripQuotes(Trim(SubSeq(bare, eq + 1, Len(bare))))
       ELSE bare

NormalizeEnvFile(text) == [i \in DOMAIN text |-> NormalizeLine(text[i])]

\* generate_compose_file normalizes the worktree's .env
Normalize ==
  /\ nz.at = "src"
  /\ nz' = [nz EXCEPT !.at = "once", !.once = NormalizeEnvFile(nz.src)]
  /\ UNCHANGED <<wsVars, hw, det, ug, sysVars>>

\* the normalized file is normalized again
Renormalize ==
  /\ nz.at = "once"
  /\ nz' = [nz EXCEPT !.at = "twice", !.twice = NormalizeEnvFile(nz.once)]
  /\ UNCHANGED <<wsVars, hw, det, ug, sysVars>>

InitNormalize ==
  /\ InitSystem
  /\ left = 0
  /\ NoWorkspace
  /\ NoWait
  /\ NoDetect
  /\ NoGuard
  /\ \E text \in EnvTexts :
       nz = [at |-> "src", src |-> text, once |-> <<>>, twice |-> <<>>]

NextNormalize == Normalize \/ Renormalize

SpecNormalize == InitNormalize /\ [][NextNormalize]_vars

\* ------------------------------------------- dirty guard of uproot (pure)
\* commits on one side of the task branch and the base branch
MaxCommits == 2

\* `git rev-list --count <base>...<branch>` counts the commits that are in
\* one of the two and not in the other; 0 when git fails
CommitsAheadOf(git_ok, branch_only, base_only) ==
  IF git_ok THEN branch_only + base_only ELSE 0

\* `git status --porcelain` prints something; false when git fails
HasUncommittedChanges(git_ok, dirty) == git_ok /\ dirty

\* uproot without force, past the sharing guard: the dirty guard
UprootGuard ==
  /\ ug.at = "call"
  /\ LET has_changes == HasUncommittedChanges(ug.git_ok, ug.dirty)
         ahead == CommitsAheadOf(ug.git_ok, ug.branch_only, ug.base_only) IN
     ug' = [ug EXCEPT !.at = "returned",
                      !.refused = RefusesDirty(FALSE, has_changes, ahead > 0)
                                    /\ ug.exists,
                      !.reasons = IF ug.exists
                                  THEN Reasons(has_changes, ahead > 0)
                                  ELSE {}]
  /\ UNCHANGED <<wsVars, hw, det, nz, sysVars>>

\* any worktree and any history of the two branches
InitGuard ==
  /\ InitSystem
  /\ left = 0
  /\ NoWorkspace /\ NoWait /\ NoDetect /\ NoNormalize
  /\ \E exists \in BOOLEAN, dirty \in BOOLEAN, git_ok \in BOOLEAN,
        branch_only \in 0..MaxCommits, base_only \in 0..MaxCommits :
       ug = [at |-> "call", exists |-> exists, dirty |-> exists /\ dirty,
             git_ok |-> git_ok, branch_only |-> branch_only,
             base_only |-> base_only, refused |-> FALSE, reasons |-> {}]

NextGuard == UprootGuard

SpecGuard == InitGuard /\ [][NextGuard]_vars

\* -------------------------------------------------------------- properties
\* the registry has an entry for t, as load_registry sees it
HasEntry(t) == LoadRegistry[t] # NoPorts

\* process p makes its last step of a call of op and returns res
Returns(p, op, res) ==
  /\ l[p].op = op
  /\ pc[p] # "idle"
  /\ pc'[p] = "idle"
  /\ ret'.res = res

\* no other process is inside a command on task t, or inside a prune that
\* found t or is cleaning it
Alone(p, t) ==
  \A q \in Procs \ {p} :
    /\ l[q].task # t
    /\ l[q].state.task_name # t
    /\ \A o \in l[q].orphans : o.task_name # t

\* C1: when plant returns an error from a stage after the per-task lock was
\* acquired (the duplicate check, which reports the record it found, set
\* aside), task t has no record, no port entry, no compose directory, no
\* compose stack and no session, and what this call created of branch and
\* worktree is removed.
C1_PlantErrorLeavesNothing ==
  [][\A p \in Procs, t \in Tasks :
       (/\ Returns(p, "plant", "Err")
        /\ l[p].task = t
        /\ pc[p] # "plant_lock"
        /\ ret'.err # "GroveAlreadyExists")
       => /\ groves'[t].kind = "absent"
          /\ ~HasEntry(t)'
          /\ ~composeDir'[t]
          /\ stack'[t] = "down"
          /\ ~session'[t]
          /\ branchOwner[t] = p => ~branch'[t]
          /\ wtOwner[t] = p => ~worktree'[t]]_vars

\* C2: when stop(t) returns Ok (no other command on t in progress), t has no
\* record, no compose directory, no port entry and no session, and its
\* worktree and branch still exist.
C2_StopPostcondition ==
  [][\A p \in Procs, t \in Tasks :
       (Returns(p, "stop", "Ok") /\ l[p].task = t /\ Alone(p, t))
       => /\ groves'[t].kind = "absent"
          /\ ~composeDir'[t]
          /\ ~HasEntry(t)'
          /\ ~session'[t]
          /\ worktree'[t]
          /\ branch'[t]]_vars

\* C3: when uproot(t) returns Ok (no other command on t in progress), t has
\* no record, no lock file, no worktree, no compose directory, no port entry
\* and no session.
C3_UprootPostcondition ==
  [][\A p \in Procs, t \in Tasks :
       (Returns(p, "uproot", "Ok") /\ l[p].task = t /\ Alone(p, t))
       => /\ groves'[t].kind = "absent"
          /\ ~lockFile'[t]
          /\ ~worktree'[t]
          /\ ~composeDir'[t]
          /\ ~HasEntry(t)'
          /\ ~session'[t]]_vars

\* C4: no two distinct tasks in the port registry have the same index.
C4_DistinctIndices ==
  \A t, u \in Tasks :
    (t # u /\ registry[t] # NoPorts /\ registry[u] # NoPorts)
    => Index(registry[t]) # Index(registry[u])

\* both tasks hold an entry and an allocate has just returned Ok
C4_Witness ==
  /\ registry["a"] # NoPorts
  /\ registry["b"] # NoPorts
  /\ ret.op = "allocate"
  /\ ret.res = "Ok"

\* C5: at no time are two processes inside the stages of a plant of the
\* same task.
C5_OnePlantPerTask ==
  \A p, q \in Procs, t \in Tasks :
    (InPlantStages(p, t) /\ InPlantStages(q, t)) => p = q

\* the sequential behaviour of allocate(t) on registry reg: the entry of t
\* if there is one, else the lowest index no entry uses
SeqAllocate(reg, t) ==
  IF reg[t] # NoPorts THEN reg
  ELSE LET used == UsedIndices(reg)
           i == CHOOSE k \in 0..Cardinality(Tasks) :
                  k \notin used /\ \A j \in 0..(k - 1) : j \in used
       IN SetF(reg, t, Ports(i))

\* C6: port allocation is linearizable. Every allocate or release that goes
\* on to return Ok takes effect in one step, its save, and the registry after
\* that step is the sequential result of the call on the registry right
\* before it; the triple allocate hands out is the entry of its task and the
\* entry of no other task; a call that fails with LockFailed leaves the
\* registry unchanged; nothing else changes the registry (but a process
\* killed inside its save).
C6_Linearizable ==
  [][/\ \A p \in Procs, t \in Tasks :
          (pc[p] = "alloc_save" /\ pc'[p] = l[p].cont /\ l[p].task = t)
          => /\ LoadRegistry' = SeqAllocate(LoadRegistry, t)
             /\ l'[p].allocated = LoadRegistry'[t]
             /\ \A u \in Tasks \ {t} : LoadRegistry'[u] # l'[p].allocated
     /\ \A p \in Procs, t \in Tasks :
          (pc[p] = "rel_save" /\ pc'[p] = l[p].cont /\ l[p].rel = t)
          => LoadRegistry' = SetF(LoadRegistry, t, NoPorts)
     /\ \A p \in Procs :
          (l[p].perr # "LockFailed" /\ l'[p].perr = "LockFailed")
          => (registry' = registry /\ regCorrupt' = regCorrupt)
     /\ LoadRegistry' # LoadRegistry
        => \E p \in Procs :
             pc[p] \in {"alloc_save", "rel_save"} /\ pc'[p] # pc[p]]_vars

\* a call has failed with LockFailed next to calls that gave both tasks
\* their entries
C6_Witness ==
  /\ ret.res = "Err"
  /\ ret.err = "LockFailed"
  /\ HasEntry("a")
  /\ HasEntry("b")
  /\ registry["a"] # registry["b"]

\* C7: a plant with compose that asks for the registry lock while a plant of
\* a different task holds it is not made to fail.
C7_NotFailedByOtherPlant ==
  [][\A p, q \in Procs :
       (/\ p # q
        /\ l[p].op = "plant" /\ pc[p] = "alloc_lock" /\ pc'[p] # pc[p]
        /\ l[q].op = "plant" /\ portsLock = q
        /\ l[q].task # l[p].task)
       => l'[p].perr # "LockFailed"]_vars

\* C8: uproot is accepted in the state Stopped: called on a task that stop
\* has just left with its worktree and branch and without its record, it does
\* not refuse with GroveNotFound.
C8_UprootAcceptedFromStopped ==
  [][\A p \in Procs, t \in Tasks :
       (/\ pc[p] = "uproot_load" /\ pc'[p] # pc[p]
        /\ l[p].task = t
        /\ ret.op = "stop" /\ ret.res = "Ok" /\ ret.task = t
        /\ Life(t) = "Stopped")
       => ~(pc'[p] = "idle" /\ ret'.err = "GroveNotFound")]_vars

\* C9: no step of a plant of t deletes a branch of t that was there when
\* this plant was called, and none removes a worktree of t that was there
\* when this plant was called, whichever stage fails.
C9_RollbackKeepsPreexisting ==
  [][\A p \in Procs, t \in Tasks :
       (l[p].op = "plant" /\ l[p].task = t /\ pc'[p] # pc[p])
       => /\ (branch[t] /\ ~branch'[t]) => p \notin branchPre[t]
          /\ (worktree[t] /\ ~worktree'[t]) => p \notin wtPre[t]]_vars

\* a plant with compose that found the branch and the worktree in place has
\* failed and rolled back, and both are still there
C9_Witness ==
  /\ ret.op = "plant"
  /\ ret.res = "Err"
  /\ ret.err \in {"ComposeNotAvailable", "PortInUse", "ComposeOperationFailed"}
  /\ branch[ret.task]
  /\ worktree[ret.task]
  /\ \A p \in Procs : pc[p] = "idle"

\* C10: a prune that runs after a plant of t was killed reclaims what the
\* plant left: when it returns, a task without a record has no port entry,
\* no compose stack and no session.
C10_PruneReclaimsKilledPlant ==
  [][\A p \in Procs, t \in Tasks :
       (/\ Returns(p, "prune", "Ok")
        /\ ret.op = "plant" /\ ret.res = "Killed" /\ ret.task = t
        /\ Alone(p, t)
        /\ groves'[t].kind = "absent")
       => /\ ~HasEntry(t)'
          /\ stack'[t] = "down"
          /\ ~session'[t]]_vars

\* C11: when prune (the cleanup_orphans that list runs first is the same
\* code) returns, the orphan it cleaned last (no other command on that task
\* in progress) has no record, no port entry, no compose directory, no
\* worktree and no lock file.
C11_OrphanReaped ==
  [][\A p \in Procs, t \in Tasks :
       (/\ Returns(p, "prune", "Ok")
        /\ pc[p] = "clean_rest"
        /\ l[p].state.task_name = t
        /\ Alone(p, t))
       => /\ groves'[t].kind = "absent"
          /\ ~HasEntry(t)'
          /\ ~composeDir'[t]
          /\ ~worktree'[t]
          /\ ~lockFile'[t]]_vars

\* everything on disk and running, but the lock files
Resources ==
  <<groves, registry, regCorrupt, composeDir, stack, session, worktree,
    branch>>

\* C12: stop and uproot without force, reading the record of a grove g (a
\* record with a compose file) that some tree record shares, return an error
\* that names exactly the sharing trees and change no record, nothing of the
\* port registry, no compose stack or directory, no session, worktree or
\* branch.
C12_SharedGroveRefused ==
  [][\A p \in Procs, g \in Tasks :
       (/\ pc[p] \in {"stop_load", "uproot_load"} /\ pc'[p] # pc[p]
        /\ l[p].task = g /\ ~l[p].force
        /\ groves[g].kind = "record" /\ groves[g].compose_file
        /\ SharingTrees(g) # {})
       => /\ pc'[p] = "idle"
          /\ ret'.res = "Err"
          /\ ret'.names = SharingTrees(g)
          /\ Resources' = Resources]_vars

\* a stop or uproot of grove a was refused because tree b shares it, and both
\* records are still there
C12_Witness ==
  /\ ret.res = "Err"
  /\ ret.task = "a"
  /\ ret.names = {"b"}
  /\ groves["a"].kind = "record"
  /\ groves["b"].shared_grove = "a"

C15_SharePlantAllocatesNothing ==
  [][\A p \in Procs, t \in Tasks, g \in Tasks :
       (/\ l[p].op = "plant" /\ l[p].task = t /\ l[p].share = g
        /\ pc'[p] # pc[p])
       => /\ <<registry, regCorrupt, composeDir, stack>>'
               = <<registry, regCorrupt, composeDir, stack>>
          /\ (pc'[p] = "idle" /\ ret'.res = "Ok")
             => /\ groves'[t].kind = "record"
                /\ ~groves'[t].compose_file
                /\ groves'[t].compose_ports = NoPorts
                /\ groves'[t].shared_grove = g
                /\ groves[g].kind = "record"
                /\ groves[g].compose_ports # NoPorts
                /\ groves'[t].shared_compose_ports = groves[g].compose_ports]_vars

\* tree b was planted sharing grove a: b has no port entry and no compose
\* directory, and its record carries a's triple
C15_Witness ==
  /\ ret.op = "plant" /\ ret.res = "Ok" /\ ret.task = "b"
  /\ groves["b"].kind = "record"
  /\ groves["b"].shared_grove = "a"
  /\ groves["b"].shared_compose_ports = Ports(0)
  /\ registry["a"] = Ports(0)
  /\ registry["b"] = NoPorts
  /\ ~composeDir["b"]

\* C16: whenever no command is running, every task with an entry in the
\* port registry has a record whose compose_ports is that entry (so a task
\* whose record was removed by stop, uproot or prune, or whose plant failed,
\* has no entry).
C16_EntryBelongsToRecord ==
  (\A p \in Procs : pc[p] = "idle")
  => \A t \in Tasks :
       HasEntry(t) => /\ groves[t].kind = "record"
                      /\ groves[t].compose_ports = LoadRegistry[t]

\* C17: whenever task t has a record and no command on t is running, the
\* branch of t exists.
C17_RecordHasBranch ==
  \A t \in Tasks :
    (/\ groves[t].kind = "record"
     /\ \A p \in Procs : /\ l[p].task # t
                          /\ l[p].state.task_name # t
                          /\ \A o \in l[p].orphans : o.task_name # t)
    => branch[t]

\* C18: every record written by plant has a compose_file if and only if it
\* has compose_ports.
C18_ComposeFileIffPorts ==
  \A t \in Tasks :
    groves[t].kind = "record"
    => (groves[t].compose_file <=> groves[t].compose_ports # NoPorts)

\* plant has written a record with a compose file and ports (grove a) and a
\* record with neither (tree b)
C18_Witness ==
  /\ ret.op = "plant" /\ ret.res = "Ok"
  /\ groves["a"].kind = "record"
  /\ groves["a"].compose_file
  /\ groves["a"].compose_ports = Ports(0)
  /\ groves["b"].kind = "record"
  /\ ~groves["b"].compose_file
  /\ groves["b"].compose_ports = NoPorts
  /\ groves["b"].shared_grove = NoTask

\* the three ports of a triple are at the same offset from their bases
Aligned(x) ==
  /\ x.app - APP_BASE = x.db - DB_BASE
  /\ x.db - DB_BASE = x.redis - REDIS_BASE

\* C19: every triple that allocate stores in the registry or returns to its
\* caller satisfies app - 3001 = db - 5433 = redis - 6380.
C19_SameIndexInAllRanges ==
  /\ \A t \in Tasks : registry[t] # NoPorts => Aligned(registry[t])
  /\ \A p \in Procs : l[p].allocated # NoPorts => Aligned(l[p].allocated)

\* allocate has stored 3002/5434/6381 for b and is about to return it
C19_Witness ==
  /\ registry["a"] = [app |-> 3001, db |-> 5433, redis |-> 6380]
  /\ registry["b"] = [app |-> 3002, db |-> 5434, redis |-> 6381]
  /\ \E p \in Procs :
       /\ pc[p] = "ports_ret"
       /\ l[p].op = "allocate" /\ l[p].task = "b"
       /\ l[p].allocated = registry["b"]

\* C20: when allocate inserts an entry for a task that has none, its index
\* is the lowest non-negative index that no entry of the registry uses, so
\* an index freed by release is taken again before any higher one.
C20_LowestFreeIndex ==
  [][\A p \in Procs, t \in Tasks :
       (/\ pc[p] = "alloc_save" /\ pc'[p] = l[p].cont
        /\ l[p].task = t
        /\ LoadRegistry[t] = NoPorts)
       => /\ LoadRegistry'[t] # NoPorts
          /\ Index(LoadRegistry'[t]) \notin UsedIndices(LoadRegistry)
          /\ \A j \in 0..(Index(LoadRegistry'[t]) - 1) :
               j \in UsedIndices(LoadRegistry)]_vars

\* b holds index 1, release(a) was the last call to return, and an allocate
\* for a has taken the freed index 0
C20_Witness ==
  /\ ret.op = "release" /\ ret.task = "a" /\ ret.res = "Ok"
  /\ Index(registry["b"]) = 1
  /\ \E p \in Procs :
       /\ pc[p] = "ports_ret"
       /\ l[p].op = "allocate" /\ l[p].task = "a"
       /\ l[p].allocated = registry["a"]
  /\ registry["a"] # NoPorts
  /\ Index(registry["a"]) = 0

\* record, registry entry, compose directory, compose stack, worktree and
\* branch of t after a single successful plant(t) on a fresh state directory
AfterSinglePlant(t, enable_compose) ==
  [record |-> [kind |-> "record", task_name |-> t,
               compose_file |-> enable_compose,
               compose_ports |-> IF enable_compose THEN Ports(0) ELSE NoPorts,
               tmux_session |-> TRUE,
               shared_grove |-> NoTask,
               shared_compose_ports |-> NoPorts],
   entry |-> IF enable_compose THEN Ports(0) ELSE NoPorts,
   composeDir |-> enable_compose,
   stack |-> IF enable_compose THEN "up" ELSE "down",
   worktree |-> TRUE,
   branch |-> TRUE]

\* the same resources of t as they are now
ResourcesOf(t) ==
  [record |-> groves[t],
   entry |-> LoadRegistry[t],
   composeDir |-> composeDir[t],
   stack |-> stack[t],
   worktree |-> worktree[t],
   branch |-> branch[t]]

\* the errors of plant that come from the machine (disk, docker, tmux, file
\* system), not from what an earlier command left
MachineErrors ==
  {"InsufficientDiskSpace", "ComposeNotAvailable", "PortInUse", "Io",
   "ComposeOperationFailed", "Json", "TmuxCommand"}

\* number of commands invoked so far when one process plants and stops
Invoked == MaxReplantOps - left

FatalPreconditions ==
  {"GroveAlreadyExists", "InsufficientDiskSpace", "ComposeNotAvailable"}

\* C22: a plant of t that fails on a fatal pre-condition has no side effect:
\* no step of it up to that return changes a record, the port registry, a
\* compose directory or stack or a session, and when it returns, the branch
\* and the worktree of t exist exactly if they did when plant was called and
\* what the user had changed in the files of the worktree is still there.
C22_FatalPreconditionNoSideEffect ==
  [][\A p \in Procs, t \in Tasks :
       /\ (/\ l[p].op = "plant" /\ l[p].task = t
           /\ pc[p] \in {"plant_lock", "plant_check", "plant_branch",
                          "plant_worktree", "plant_avail"}
           /\ pc'[p] # pc[p])
          => <<groves, registry, regCorrupt, composeDir, stack, session>>'
               = <<groves, registry, regCorrupt, composeDir, stack, session>>
       /\ (/\ Returns(p, "plant", "Err") /\ l[p].task = t
           /\ ret'.err \in FatalPreconditions)
          => /\ branch'[t] = (p \in branchPre[t])
             /\ worktree'[t] = (p \in wtPre[t])
             /\ l[p].envPre => envEdited'[t]]_vars

\* C23: record writes are atomic: at every moment, also after save met an
\* I/O error, the file groves/<task>.json is absent or holds a complete
\* record (the previous one or the new one), never a partially written one.
C23_RecordNeverPartial ==
  \A t \in Tasks : groves[t].kind # "corrupt"

\* the texts the command loop has sent to pane j
CommandKeys(j) ==
  LET sent == SelectSeq(keys[j], LAMBDA k : k.pass = "command") IN
  [i \in 1..Len(sent) |-> sent[i].text]

\* the command loop is past pane j
Served(j) ==
  \/ wsPc.at \in {"done", "select", "select_failed"}
  \/ wsPc.at \in {"send", "send_failed"} /\ j < wsPc.pane

Crashed == {i \in DOMAIN hw.ps : hw.ps[i].State \in {"exited", "dead"}}

\* the last listing shows services, all of them ready
AllReady ==
  /\ hw.ps # <<>>
  /\ \A i \in DOMAIN hw.ps :
       /\ hw.ps[i].State = "running"
       /\ hw.ps[i].Health \in {"", "healthy"}

\* C25: wait_healthy returns Ok at the first poll in which all services are
\* ready (State running, Health empty or healthy), and returns a
\* ComposeOperationFailed naming the service at the first poll in which a
\* service reports State exited or dead, whatever the other services
\* report; before such a poll it has not returned Ok.
C25_WaitHealthyVerdict ==
  (hw.n > 0 /\ hw.success) =>
    /\ Crashed # {} =>
         /\ hw.at = "returned" /\ hw.res = "Err"
         /\ \E i \in Crashed : hw.names = hw.ps[i].Name
    /\ AllReady => hw.at = "returned" /\ hw.res = "Ok"
    /\ hw.res = "Ok" => AllReady /\ hw.at = "returned"

C25_Witness ==
  /\ hw.n = 2
  /\ hw.success
  /\ hw.res = "Err"
  /\ hw.names = "db"
  /\ Len(hw.ps) = 2
  /\ Ready(hw.ps[1])
  /\ hw.ps[2].State = "dead"


\* C26: once the stack has passed the health wait, no outcome of the
\* source-database detection, the clone, db:prepare, db:seed or a post-start
\* hook makes plant fail or roll back: the step leaves every resource as it
\* is and plant goes on to the session, and the record a successful plant
\* writes is the same after a failed setup as after a successful one.
C26_DbSetupNeverFatal ==
  [][\A p \in Procs, t \in Tasks :
       /\ (pc[p] = "plant_db" /\ pc'[p] # "plant_db")
          => /\ pc'[p] = "plant_session"
             /\ <<groves, registry, regCorrupt, composeDir, stack, session,
                  branch, worktree>>'
                  = <<groves, registry, regCorrupt, composeDir, stack,
                      session, branch, worktree>>
       /\ (/\ Returns(p, "plant", "Ok") /\ l[p].task = t /\ l[p].compose)
          => groves'[t] = [kind |-> "record", task_name |-> t,
                           compose_file |-> TRUE,
                           compose_ports |-> l[p].allocated,
                           tmux_session |-> TRUE,
                           shared_grove |-> NoTask,
                           shared_compose_ports |-> NoPorts]]_vars

C26_Witness ==
  \E p \in Procs :
    /\ pc[p] = "plant_save"
    /\ l[p].dbFailed
    /\ l[p].compose
    /\ stack[l[p].task] = "up"
    /\ session[l[p].task]


\* what each source of the chain yields for the worktree of the call
Yields ==
  <<DetectFromEnvFile(det.env), DetectFromDatabaseYml(det.yml),
    DetectFromRunningPostgres(det.psql, det.project),
    DetectFromConvention(det.project)>>

\* C27: detect_source_db returns the value of the first source of the chain
\* that yields one (DATABASE_URL in .env, development.database of
\* config/database.yml, a matching database on the running server, the
\* naming convention): a later source is never used when an earlier one
\* yields a value, and it fails only when no source yields one.
C27_FirstSourceWins ==
  det.res # "none" =>
    /\ \A k \in 1..4 :
         (Yields[k] # None /\ \A j \in 1..(k - 1) : Yields[j] = None)
           => det.res = "Ok" /\ det.url = Yields[k]
    /\ (\A k \in 1..4 : Yields[k] = None) => det.res = "Err"

C27_Witness ==
  /\ det.res = "Ok"
  /\ det.env.exists
  /\ Len(det.env.lines) = 2
  /\ det.env.lines[1].key = "DATABASE_URL"
  /\ det.env.lines[1].value = ""
  /\ det.env.lines[2].key = "#"
  /\ det.yml = "app_dev"
  /\ det.url = LocalUrl("app_dev")
  /\ Yields[3] # None
  /\ Yields[4] # None


\* C28: the .env normalizer is a fixed point on its own output: for every
\* input file, normalizing the normalized file yields the same bytes as
\* normalizing once.
C28_NormalizeIdempotent ==
  nz.at = "twice" => nz.twice = nz.once


\* C29: on a plant failure the undo actions run in exactly the reverse of the
\* order in which their stages committed: session kill, compose down, compose
\* directory removal, port release, worktree removal, branch deletion. Hence
\* when the rollback comes to ports::release the session is killed and the
\* compose directory it has to remove is removed, and when it is over and
\* has removed the worktree or the branch, the directory is removed too.
C29_UndoInReverseOrder ==
  [][\A p \in Procs, t \in Tasks :
       (l'[p].op = "plant" /\ l'[p].task = t /\ l'[p].cont = "plant_rb")
         => /\ (pc[p] # "rel_lock" /\ pc'[p] = "rel_lock")
                 => /\ ~session'[t]
                    /\ l'[p].rbDir => ~composeDir'[t]
            /\ (pc[p] = "plant_rb" /\ pc'[p] = "idle" /\ l[p].rbDir)
                 => ~composeDir'[t]]_vars


\* C30: when docker compose up fails during plant, the rollback runs down -v
\* for the task's compose project and removes the compose directory: when
\* plant returns its ComposeOperationFailed, no container or volume of the
\* project is left and the directory is gone.
C30_FailedUpLeavesNothing ==
  [][\A p \in Procs, t \in Tasks :
       (/\ Returns(p, "plant", "Err") /\ l[p].task = t
        /\ ret'.err = "ComposeOperationFailed")
         => stack'[t] = "down" /\ ~composeDir'[t]]_vars


C32_RefusedIffDirtyOrAhead ==
  (ug.at = "returned" /\ ug.exists /\ ug.git_ok)
    => (ug.refused <=> (ug.dirty \/ ug.branch_only > 0))


\* C33: every command that plant and the workspace builder send to a pane,
\* the initial command to the first pane of the first window included, is
\* addressed by session, window index (counted from the server's base-index)
\* and pane index, never by window name.
C33_PanesAddressedByIndex ==
  \A j \in DOMAIN keys :
    \A i \in DOMAIN keys[j] :
      /\ keys[j][i].window = [by |-> "index", at |-> wsArgs.base_index]
      /\ keys[j][i].pane = j - 1


\* the calls of one part of the window's construction
CallsOf(passes) == {a \in DOMAIN calls : calls[a].pass \in passes}

\* C34: within each window, the workspace builder creates all panes before
\* it applies the window's layout preset, applies the layout before it sends
\* any pane command, sends the commands in pane order, and selects the
\* focused pane after all commands of that window were sent; this holds for
\* every window, including one with a single pane.
C34_WindowBuiltInOrder ==
  /\ \A a \in CallsOf({"layout"}) :
       /\ \A j \in DOMAIN wsArgs.panes :
            \E c \in CallsOf({"create"}) : c < a /\ calls[c].pane = j
       /\ \A c \in CallsOf({"create", "cd"}) : c < a
  /\ \A b \in CallsOf({"command"}) :
       /\ \E a \in CallsOf({"layout"}) : a < b
       /\ \A c \in CallsOf({"command"}) :
            c < b <=> calls[c].pane < calls[b].pane
  /\ \A d \in CallsOf({"select"}) :
       /\ \A b \in CallsOf({"command"}) : b < d
       /\ \A j \in DOMAIN wsArgs.panes :
            PaneText(wsArgs.compose_file, wsArgs.panes[j]) # <<>>
              => \E b \in CallsOf({"command"}) : calls[b].pane = j


\* C35: orphan cleanup run by another process never removes the worktree of
\* a task whose stop is in progress: whenever cleanup_orphan acts on a task
\* that another process is stopping, the task's worktree is still there
\* afterwards.
C35_CleanupSparesStoppingTask ==
  [][\A p \in Procs, q \in Procs, t \in Tasks :
       (/\ pc[p] = "clean_rest"
        /\ pc'[p] # "clean_rest"
        /\ l[p].state.task_name = t
        /\ q # p
        /\ l[q].op = "stop"
        /\ l[q].task = t
        /\ pc[q] \notin {"idle", "stop_load"}
        /\ worktree[t])
         => worktree'[t]]_vars


\* C36: the compose stack of a grove is never torn down while a tree record
\* that shares it exists, unless by a stop or uproot of the grove called
\* with force; orphan cleanup of the grove and a stop of the grove that a
\* tree plant overlaps are no exceptions.
C36_SharedStackStaysUp ==
  [][\A g \in Tasks :
       (/\ stack[g] # "down"
        /\ stack'[g] = "down"
        /\ SharingTrees(g) # {})
         => \E p \in Procs :
              /\ l[p].op \in {"stop", "uproot"}
              /\ l[p].task = g
              /\ l[p].force
              /\ pc'[p] # pc[p]]_vars


\* C37: when plant returns Ok, the session named in the record it wrote
\* exists, so the new record is not an orphan at that moment, whatever
\* workspace template was loaded (one with an empty window list included).
C37_OkPlantHasSession ==
  [][\A p \in Procs, t \in Tasks :
       (Returns(p, "plant", "Ok") /\ l[p].task = t)
         => /\ groves'[t].kind = "record"
            /\ groves'[t].tmux_session
            /\ session'[t]
            /\ groves'[t] \notin Orphans']_vars


\* C38: orphan detection never reaps an environment whose plant is still in
\* progress: cleanup_orphan never removes the worktree or the session of a
\* task while a plant of that task is in its stages.
C38_CleanupSparesRunningPlant ==
  [][\A p \in Procs, q \in Procs, t \in Tasks :
       (/\ InPlantStages(p, t)
        /\ pc[q] = "clean_rest"
        /\ pc'[q] # "clean_rest"
        /\ l[q].state.task_name = t)
         => /\ worktree[t] => worktree'[t]
            /\ session[t] => session'[t]]_vars


\* the task whose environment the running step of p tears down, if any
TornDown(p) ==
  CASE l[p].op \in {"stop", "uproot"} -> l[p].task
    [] l[p].op = "prune" -> l[p].state.task_name
    [] OTHER -> NoTask

Services == {"app", "db", "redis"}

\* C40: all port numbers held in the registry are pairwise distinct across
\* tasks and across the three services, and each fits in 16 bits: a port of
\* one task never equals a port of another task, however many tasks have
\* been allocated.
C40_PortsPairwiseDistinct ==
  \A t \in Tasks, u \in Tasks, x \in Services, y \in Services :
    (registry[t] # NoPorts /\ registry[u] # NoPorts)
      => /\ registry[t][x] \in 0..(U16 - 1)
         /\ <<t, x>> # <<u, y>> => registry[t][x] # registry[u][y]



\* ------------------------------------------------------------- type sanity
TypeOK ==
  /\ \A t \in Tasks : lockHolder[t] # NoProc => lockFile[t]
  /\ \A t \in Tasks : groves[t].kind = "record" => groves[t].task_name = t
  /\ \A t \in Tasks : groves[t].shared_grove # NoTask => ~groves[t].compose_file
  /\ \A p \in Procs : pc[p] = "idle" => l[p] = Fresh
  /\ \A t \in Tasks :
       ~branch[t] => (branchPre[t] = {} /\ branchOwner[t] = NoProc)
  /\ \A t \in Tasks :
       ~worktree[t] => (wtPre[t] = {} /\ wtOwner[t] = NoProc)
  /\ \A t \in Tasks : uncommitted[t] => worktree[t]
  /\ \A t \in Tasks : envEdited[t] => worktree[t]
  /\ \A t \in Tasks : \A p \in branchPre[t] \cup wtPre[t] :
       l[p].op = "plant" /\ l[p].task = t

====
